---- MODULE Spec2Model ----
(***************************************************************************)
(* Model of sallie's TVNext checker (src/src/sallie/tv_next.py) and of the  *)
(* TVDB adapter's fetch-and-merge (src/src/sallie/next_tvdb.py): the show   *)
(* store, the staleness policy show_update_should, the refresh loop         *)
(* show_update, the batch show_update_all, the window queries check and     *)
(* check_all, and the cache file written by show_save_all.                  *)
(*                                                                         *)
(* Time is counted in ticks, TicksPerDay ticks to a day, so that the        *)
(* whole-day arithmetic of datetime.timedelta.days (a floor) is visible.    *)
(* A Python dict is a function whose DOMAIN is the set of keys present.     *)
(***************************************************************************)
EXTENDS Integers, Sequences, FiniteSets, TLC

VARIABLES
    cfg,      \* the settings read in TVNext.__init__
    shows,    \* self._shows: show key -> show record (a dict)
    disk,     \* the cache file: <<>> while absent, else <<document>>
    now,      \* the UTC clock, in ticks
    pc,       \* position of the first caller inside its running operation
    stack,    \* the callers the running show_update/check returns to
    u,        \* frame of show_update
    b,        \* frame of show_update_all
    c,        \* frame of check
    ca,       \* frame of check_all
    ret,      \* value returned by the last show_update / show_update_should
    results,  \* list returned by the last check / check_all
    log,      \* show_save_all calls of the running top-level operation
    lock,     \* self._lock_update, a threading.RLock: owner and depth
    t2,       \* frame of a second thread calling the public operations
    prior,    \* the store of the previous process, kept when one restarts
    temp,     \* the temporary file show_save_all writes, absent or <<...>>
    sv        \* frame of show_save_all while it is followed write by write

vars ==
    <<cfg, shows, disk, now, pc, stack, u, b, c, ca, ret, results, log,
      lock, t2, prior, temp, sv>>

----------------------------------------------------------------------------
(* Bounds of the model *)

MaxTime == 2

MaxPolicyTime == 4

TicksPerDay == 2

MaxRetryNum == 3

MaxQueryDay == 2

----------------------------------------------------------------------------
(* Values *)

NoTime == -1

NoInterval == -1

Keys == {"a", "b"}

SpecKeys == {"a"}

KeyOrder == <<"a", "b">>

Max(x, y) == IF x >= y THEN x ELSE y

Get(d, k, dflt) == IF k \in DOMAIN d THEN d[k] ELSE dflt

SetDefault(d, k, v) == IF k \in DOMAIN d THEN d ELSE (k :> v) @@ d

Put(d, k, v) == (k :> v) @@ d

DaysTowardZero(delta) ==
    IF delta >= 0 THEN delta \div TicksPerDay ELSE -((-delta) \div TicksPerDay)

(* timedelta.days: the floor of the duration in days (-1 for minus one hour) *)
Days(delta) == delta \div TicksPerDay

RECURSIVE Concat(_)
Concat(ss) == IF ss = << >> THEN << >> ELSE Head(ss) \o Concat(Tail(ss))

Reverse(s) == [i \in 1..Len(s) |-> s[Len(s) + 1 - i]]

----------------------------------------------------------------------------
(* show_episodes_flatten: the episodes mapping is an insertion-ordered dict *)
(* season -> (episode -> record), held as a sequence of seasons, each the   *)
(* sequence of its episode records.                                         *)

Episode(s, e, aired) == [id |-> <<s, e>>, aired |-> aired]

show_episodes_flatten(show) ==
    Concat([i \in 1..Len(show["episodes"]) |-> show["episodes"][i].eps])

----------------------------------------------------------------------------
(* Staleness policy: show_update_should *)

ShowDefaults(show) ==
    SetDefault(SetDefault(SetDefault(show, "active", TRUE), "hiatus", FALSE),
               "episodes", << >>)

ErrorRetryDueAnyTime(show, diffdays, force_check) == Get(show, "errors", 0) >= 3

ErrorRetryDue(show, diffdays, force_check) ==
    /\ Get(show, "errors", 0) >= 3
    /\ (diffdays >= cfg.update_interval_error \/ force_check)

ErrorRetryCapNoFloor == cfg.update_retry_num - 1

ErrorRetryCap == Max(1, cfg.update_retry_num - 1)

RECURSIVE AiredScanNoBreak(_, _, _)
AiredScanNoBreak(eps, accessed, t) ==
    IF eps = << >> THEN "miss"
    ELSE LET aired == Head(eps).aired IN
         IF aired # NoTime /\ aired <= t
            /\ Days(aired - accessed) >= cfg.update_interval_aired
         THEN "hit"
         ELSE AiredScanNoBreak(Tail(eps), accessed, t)

(* The scan over episodes[::-1]: "hit" when it returns True, "miss" when   *)
(* the loop ends or breaks.                                                 *)
RECURSIVE AiredScan(_, _, _)
AiredScan(eps, accessed, t) ==
    IF eps = << >> THEN "miss"
    ELSE LET aired == Head(eps).aired IN
         IF aired = NoTime THEN AiredScan(Tail(eps), accessed, t)
         ELSE IF aired > t THEN AiredScan(Tail(eps), accessed, t)
         ELSE IF Days(aired - accessed) >= cfg.update_interval_aired THEN "hit"
         ELSE "miss"

AiredDue(show, accessed, t) ==
    /\ cfg.update_interval_aired # NoInterval
    /\ AiredScan(Reverse(show_episodes_flatten(show)), accessed, t) = "hit"

Truthy(interval) == interval # NoInterval /\ interval # 0

InactiveDue(diffdays) ==
    IF Truthy(cfg.update_interval_inactive)
    THEN diffdays >= cfg.update_interval_inactive
    ELSE FALSE

HiatusDue(diffdays) ==
    IF Truthy(cfg.update_interval_hiatus)
    THEN diffdays >= cfg.update_interval_hiatus
    ELSE FALSE

DefaultDueOffByOne(diffdays) == diffdays + 1 >= cfg.update_interval

DefaultDue(diffdays) == diffdays >= cfg.update_interval

ShouldAccessedHiatusFirst(show, accessed, t, force_check) ==
    LET diffdays == Days(t - accessed) IN
    IF ErrorRetryDue(show, diffdays, force_check)
    THEN [ret |-> TRUE, show |-> Put(show, "errors", ErrorRetryCap)]
    ELSE IF force_check THEN [ret |-> TRUE, show |-> show]
    ELSE IF AiredDue(show, accessed, t) THEN [ret |-> TRUE, show |-> show]
    ELSE IF show["hiatus"] THEN [ret |-> HiatusDue(diffdays), show |-> show]
    ELSE IF ~show["active"] THEN [ret |-> InactiveDue(diffdays), show |-> show]
    ELSE [ret |-> DefaultDue(diffdays), show |-> show]

(* The rules after the never-accessed test, in the order of the code.       *)
ShouldAccessed(show, accessed, t, force_check) ==
    LET diffdays == Days(t - accessed) IN
    IF ErrorRetryDue(show, diffdays, force_check)
    THEN [ret |-> TRUE, show |-> Put(show, "errors", ErrorRetryCap)]
    ELSE IF force_check THEN [ret |-> TRUE, show |-> show]
    ELSE IF AiredDue(show, accessed, t) THEN [ret |-> TRUE, show |-> show]
    ELSE IF ~show["active"] THEN [ret |-> InactiveDue(diffdays), show |-> show]
    ELSE IF show["hiatus"] THEN [ret |-> HiatusDue(diffdays), show |-> show]
    ELSE [ret |-> DefaultDue(diffdays), show |-> show]

(* show_update_should(key, force_check) at clock t: the value returned and  *)
(* the show record it leaves in the store.                                  *)
NeverAccessedAsEpoch(accessed) == FALSE

NeverAccessed(accessed) == accessed = NoTime

show_update_should(show0, t, force_check) ==
    LET show     == ShowDefaults(show0)
        accessed == Get(show, "accessed", NoTime)
    IN  IF NeverAccessed(accessed)
        THEN [ret |-> TRUE, show |-> show]
        ELSE ShouldAccessed(show, accessed, t, force_check)

----------------------------------------------------------------------------
(* Settings (TVNext.__init__).  Intervals are days; NoInterval is None.     *)

Cfg(ui, hiatus, inactive, aired, err, num, retry) ==
    [update_interval          |-> ui,
     update_interval_hiatus   |-> hiatus,
     update_interval_inactive |-> inactive,
     update_interval_aired    |-> aired,
     update_interval_error    |-> err,
     update_retry_delay       |-> 2,
     update_retry_num         |-> num,
     update_retry             |-> retry]

RetryNums == 1..MaxRetryNum

----------------------------------------------------------------------------
(* Frames of the operations, and their values while the operation is not    *)
(* running.                                                                 *)

UIdle ==
    [key |-> "", force_check |-> FALSE, auto_save |-> FALSE,
     changed |-> FALSE, retry |-> FALSE, error_sleep |-> 0,
     fetch_now |-> NoTime,
     \* the provider's answer while the adapter writes it into the record
     data |-> << >>,
     \* history of the call: the record at entry, the gate's answer, the
     \* provider outcomes, the sleeps
     pre |-> << >>, due |-> FALSE, outcomes |-> << >>, slept |-> << >>]

BIdle ==
    [queue |-> << >>, force_check |-> FALSE, auto_save |-> FALSE,
     changed |-> FALSE,
     \* history of the batch: keys at entry, keys handed to show_update,
     \* keys whose provider call succeeded, keys whose calls all failed,
     \* keys whose show_update returned true
     keys |-> << >>, done |-> << >>, ok |-> {}, failed |-> {}, returned |-> {}]

CIdle ==
    [key |-> "", day_min |-> 0, day_max |-> 0,
     \* history: a provider call of the show_update of line 523 succeeded;
     \* that show_update returned true
     ok |-> FALSE, changed |-> FALSE]

CAIdle ==
    [queue |-> << >>, force_check |-> FALSE, auto_save |-> FALSE,
     delta_min |-> <<"none">>, delta_max |-> <<"none">>, results |-> << >>,
     \* history: the batch refresh of lines 573-574 has run; whether the
     \* caller gave keys; the keys to process as fixed at line 572; the keys
     \* handed to check so far
     batch_done |-> FALSE, given |-> FALSE, keys |-> << >>, order |-> << >>,
     \* history: a provider call succeeded during the call; a show_update of
     \* a per-key check returned true
     refreshed |-> FALSE, later |-> FALSE]

LogIdle == [saves |-> 0, save_failed |-> FALSE]

SVIdle ==
    [doc |-> << >>, todo |-> << >>,
     \* history: the cache file when the call began
     old |-> << >>]

T2Idle ==
    [pc |-> "idle", op |-> "", key |-> "",
     \* history: the first caller was between the two writes of a refresh of
     \* the same show when this thread read the record
     torn |-> FALSE]

----------------------------------------------------------------------------
(* self._lock_update = threading.RLock(): the owning thread may acquire it  *)
(* again; it is free once released as often as acquired.                    *)

\* peak is history: the highest hold count since the lock was last free
LockFree == [owner |-> "", depth |-> 0, peak |-> 0]

CanAcquireAlways(l, thread) == TRUE

CanAcquire(l, thread) == l.owner \in {"", thread}

Acquire(l, thread) ==
    [owner |-> thread, depth |-> l.depth + 1,
     peak |-> IF l.peak > l.depth THEN l.peak ELSE l.depth + 1]

Release(l) ==
    IF l.depth = 1 THEN LockFree ELSE [l EXCEPT !.depth = @ - 1]

----------------------------------------------------------------------------
(* Show records *)

ShowRec(active, hiatus, episodes, accessed, errors) ==
    [active |-> active, hiatus |-> hiatus, episodes |-> episodes]
    @@ (IF accessed = NoTime THEN << >> ELSE "accessed" :> accessed)
    @@ (IF errors < 0 THEN << >> ELSE "errors" :> errors)

Strip(show, fields) == [k \in DOMAIN show \ fields |-> show[k]]

Season(nr, eps) == [nr |-> nr, eps |-> eps]

----------------------------------------------------------------------------
(* Specification of the staleness policy alone: show_update_should applied  *)
(* once to a show record, a clock and a force flag drawn from bounded sets. *)

Times == 0..MaxPolicyTime

AiredTimes == {NoTime} \cup Times

(* One season of at most two episodes. *)
EpisodeMaps ==
    {<< >>}
    \cup {<<Season(1, <<Episode(1, 1, x)>>)>> : x \in AiredTimes}
    \cup {<<Season(1, <<Episode(1, 1, x), Episode(1, 2, y)>>)>> :
            x \in Times, y \in AiredTimes}

(* Records as the store can hold them: a blank record left by show_add, or  *)
(* a record with the fields a refresh or the policy's defaults have set;    *)
(* accessed and errors present or not.                                      *)
PolicyShows(episodeMaps, errorCounts) ==
    LET full == {ShowRec(a, h, e, acc, er) :
                    a \in BOOLEAN, h \in BOOLEAN, e \in episodeMaps,
                    acc \in {NoTime} \cup Times, er \in errorCounts}
    IN  full \cup {Strip(s, {"active", "hiatus", "episodes"}) : s \in full}

ErrorCounts == {-1} \cup 0..(MaxRetryNum + 1)

(* Settings without the recently-aired rule *)
PolicyCfgsPlain ==
    {Cfg(ui, NoInterval, NoInterval, NoInterval, er, n, TRUE) :
        ui \in {1, 2}, er \in {0, 1, 2}, n \in RetryNums}
    \cup {Cfg(1, h, i, NoInterval, 1, 3, TRUE) : h \in {0, 1, 2}, i \in {0, 1, 2}}

(* Settings with the recently-aired rule *)
PolicyCfgsAired ==
    {Cfg(2, hi, hi, a, er, 3, TRUE) :
        hi \in {NoInterval, 1}, a \in {0, 1}, er \in {1, 2}}

PolicyInputs ==
    (PolicyCfgsPlain
        \X PolicyShows({<< >>, <<Season(1, <<Episode(1, 1, 0)>>)>>}, ErrorCounts))
    \cup (PolicyCfgsAired \X PolicyShows(EpisodeMaps, {0, 3}))

PolicyInit ==
    /\ \E in \in PolicyInputs, f \in BOOLEAN :
        /\ cfg = in[1]
        /\ shows = ("a" :> in[2])
        /\ u = [UIdle EXCEPT !.key = "a", !.force_check = f, !.pre = in[2]]
    /\ now \in Times
    /\ Get(shows["a"], "accessed", NoTime) <= now
    /\ pc = "policy"
    /\ disk = << >>
    /\ stack = << >>
    /\ b = BIdle
    /\ c = CIdle
    /\ ca = CAIdle
    /\ ret = FALSE
    /\ results = << >>
    /\ log = LogIdle
    /\ lock = LockFree
    /\ t2 = T2Idle
    /\ prior = << >>
    /\ temp = << >>
    /\ sv = SVIdle

(* A direct call show_update_should(key, force_check). *)
PolicyEval ==
    /\ pc = "policy"
    /\ LET r == show_update_should(shows[u.key], now, u.force_check) IN
        /\ shows' = Put(shows, u.key, r.show)
        /\ ret' = r.ret
    /\ pc' = "policy_ret"
    /\ UNCHANGED <<lock, t2, prior, temp, sv>>
    /\ UNCHANGED <<cfg, disk, now, stack, u, b, c, ca, results, log>>

PolicyNext == PolicyEval

PolicySpec == PolicyInit /\ [][PolicyNext]_vars

----------------------------------------------------------------------------
(* Claims about the staleness policy (checked under PolicySpec) *)

PolicyDone == pc = "policy_ret"

PreAccessed == Get(u.pre, "accessed", NoTime)

PreErrors == Get(u.pre, "errors", 0)

PreDays == Days(now - PreAccessed)

(* C4: a show record whose accessed is absent is always due:                *)
(* show_update_should returns true whatever active, hiatus, errors,         *)
(* episodes, force and the configured intervals are.                        *)
C4_NeverAccessedIsDue ==
    (PolicyDone /\ PreAccessed = NoTime) => ret = TRUE

C4_Witness ==
    /\ PolicyDone
    /\ PreAccessed = NoTime
    /\ ~u.force_check
    /\ "active" \in DOMAIN u.pre
    /\ ~u.pre["active"]
    /\ PreErrors >= 3
    /\ ret = TRUE

(* C5: for an accessed show with errors >= 3 whose whole days since         *)
(* accessed reach the error-retry interval, or with force set,              *)
(* show_update_should returns true and leaves errors = max(1, max_retries-1) *)
C5_ErrorRetryCaps ==
    (/\ PolicyDone
     /\ PreAccessed # NoTime
     /\ PreErrors >= 3
     /\ (PreDays >= cfg.update_interval_error \/ u.force_check))
    => (/\ ret = TRUE
        /\ shows[u.key]["errors"] =
             (IF cfg.update_retry_num - 1 >= 1 THEN cfg.update_retry_num - 1 ELSE 1))

C5_Witness ==
    /\ PolicyDone
    /\ PreAccessed # NoTime
    /\ PreErrors = 3
    /\ ~u.force_check
    /\ PreDays >= cfg.update_interval_error
    /\ cfg.update_retry_num = 1
    /\ ret = TRUE
    /\ shows[u.key]["errors"] = 1

(* No episode of the record meets the recently-aired rule: none has aired   *)
(* by now with whole days (aired - accessed) at or above the threshold.     *)
NoQualifyingEpisode ==
    \/ cfg.update_interval_aired = NoInterval
    \/ LET eps == show_episodes_flatten(ShowDefaults(u.pre)) IN
       \A i \in 1..Len(eps) :
          ~(/\ eps[i].aired # NoTime
            /\ eps[i].aired <= now
            /\ Days(eps[i].aired - PreAccessed) >= cfg.update_interval_aired)

ActiveFreshUnforced ==
    /\ PolicyDone
    /\ PreAccessed # NoTime
    /\ Get(u.pre, "active", TRUE)
    /\ ~Get(u.pre, "hiatus", FALSE)
    /\ ~u.force_check
    /\ PreDays < cfg.update_interval
    /\ NoQualifyingEpisode

(* C6 as stated: an accessed, active, non-hiatus show, not forced, whose    *)
(* whole days since accessed are below the default interval and that has no *)
(* qualifying recently-aired episode is not due, for every value of errors  *)
(* and every error-retry interval.                                          *)
C6_AsStated == ActiveFreshUnforced => ret = FALSE

(* C6 amended: ... is not due, provided the error-retry rule does not match *)
(* (errors < 3, or whole days since accessed below the error-retry          *)
(* interval); when that rule matches, the show is due.                      *)
C6_FreshActiveNotDue ==
    ActiveFreshUnforced =>
        (ret = (PreErrors >= 3 /\ PreDays >= cfg.update_interval_error))

C6_Witness ==
    /\ ActiveFreshUnforced
    /\ PreErrors >= 3
    /\ PreDays < cfg.update_interval_error
    /\ PreDays = 1
    /\ cfg.update_interval_aired # NoInterval
    /\ Len(show_episodes_flatten(ShowDefaults(u.pre))) = 2
    /\ ret = FALSE

----------------------------------------------------------------------------
(* The cache file.  JSONEncoder writes a timezone object as its zone name   *)
(* and a datetime in a tagged form; json.dumps(sort_keys=True) writes every *)
(* dict in the order of its keys and turns the integer season and episode   *)
(* keys of a fetched record into strings.  Integer keys are ordered as      *)
(* numbers (2 before 10); the keys of a record loaded from the file are     *)
(* strings and are ordered as strings ("10" before "2").  A season whose    *)
(* keys are strings carries the field keys = "str".                         *)

StrKey(n) == IF n < 10 THEN <<n>> ELSE <<n \div 10, n % 10>>

RECURSIVE StrLess(_, _)
StrLess(x, y) ==
    IF x = << >> THEN y # << >>
    ELSE IF y = << >> THEN FALSE
    ELSE IF Head(x) # Head(y) THEN Head(x) < Head(y)
    ELSE StrLess(Tail(x), Tail(y))

StrKeyed(season) == "keys" \in DOMAIN season

(* The key a dict entry is sorted by: the number, or the decimal string *)
SortKey(n, strkeyed) == IF strkeyed THEN StrKey(n) ELSE <<n>>

RECURSIVE InsertByKey(_, _)
InsertByKey(sorted, e) ==
    IF sorted = << >> THEN <<e>>
    ELSE IF StrLess(e.ord, Head(sorted).ord) THEN <<e>> \o sorted
    ELSE <<Head(sorted)>> \o InsertByKey(Tail(sorted), e)

RECURSIVE SortByKey(_)
SortByKey(s) ==
    IF s = << >> THEN << >> ELSE InsertByKey(SortByKey(Tail(s)), Head(s))

(* The entries as the file holds them: string key and value *)
Written(s) == [i \in 1..Len(s) |-> [key |-> s[i].key, value |-> s[i].value]]

EncodeTime(t) == IF t = NoTime THEN <<"null">> ELSE <<"datetime", t>>

EncodeEpisode(ep, strkeyed) ==
    [ord |-> SortKey(ep.id[2], strkeyed),
     key |-> StrKey(ep.id[2]),
     value |-> [id |-> ep.id, aired |-> EncodeTime(ep.aired)]]

EncodeSeason(season) ==
    [ord |-> SortKey(season.nr, StrKeyed(season)),
     key |-> StrKey(season.nr),
     value |-> Written(SortByKey([i \in 1..Len(season.eps) |->
                            EncodeEpisode(season.eps[i], StrKeyed(season))]))]

EncodeField(k, v) ==
    IF k = "accessed" THEN EncodeTime(v)
    ELSE IF k = "air_timezone" THEN v[2]
    ELSE IF k = "episodes"
         THEN Written(SortByKey([i \in 1..Len(v) |-> EncodeSeason(v[i])]))
    ELSE v

EncodeShow(show) == [k \in DOMAIN show |-> EncodeField(k, show[k])]

EncodeStore(store) == [k \in DOMAIN store |-> EncodeShow(store[k])]

(* Loading the file: json gives every object as a dict with string keys in  *)
(* the order of the file; JSONDecoder.decode turns a dict with the key      *)
(* __pytzinfo__ into a timezone (JSONEncoder never writes one, the zone     *)
(* name comes back as a string) and gives every datetime the UTC zone.      *)
KeyNumber(key) == IF Len(key) = 1 THEN key[1] ELSE key[1] * 10 + key[2]

DecodeTime(v) == IF v[1] = "datetime" THEN v[2] ELSE NoTime

DecodeEpisode(e) == [id |-> e.value.id, aired |-> DecodeTime(e.value.aired)]

DecodeSeason(e) ==
    [nr |-> KeyNumber(e.key),
     eps |-> [i \in 1..Len(e.value) |-> DecodeEpisode(e.value[i])],
     keys |-> "str"]

DecodeField(k, v) ==
    IF k = "accessed" THEN DecodeTime(v)
    ELSE IF k = "air_timezone" THEN <<"str", v>>
    ELSE IF k = "episodes" THEN [i \in 1..Len(v) |-> DecodeSeason(v[i])]
    ELSE v

DecodeShow(doc) == [k \in DOMAIN doc |-> DecodeField(k, doc[k])]

DecodeStore(doc) == [k \in DOMAIN doc |-> DecodeShow(doc[k])]

(* start(), lines 173-178: the loaded shows are added to the store; a show  *)
(* the store already holds keeps its record.                                *)
start(store, file) ==
    IF file = << >> THEN store ELSE store @@ DecodeStore(file[1])

(* show_save_all: the document replaces the cache file unless writing the   *)
(* temporary file or moving it raises; the exception is logged, not raised. *)
SaveOutcomes == {"ok", "fails"}

show_save_all(file, store, outcome) ==
    IF outcome = "ok" THEN <<EncodeStore(store)>> ELSE file

Saved(outcome) ==
    [saves |-> log.saves + 1, save_failed |-> log.save_failed \/ outcome # "ok"]

SaveRaisesOnFailure(outcome) == outcome # "ok"

(* Lines 268-281: the write and the move are inside try ... except          *)
(* Exception, which logs; nothing is raised to the caller.                  *)
SaveRaises(outcome) == FALSE

----------------------------------------------------------------------------
(* The provider adapter, TVNextTVDB._show_update *)

DefaultTimezone == <<"tz", "US/Pacific">>

NoTimezone == <<"none">>

ToTimezone(tz) == IF tz[1] = "str" THEN <<"tz", tz[2]>> ELSE tz

(* What a successful fetch yields, after the adapter has built the episode  *)
(* records: whether the status is other than ENDED, and the episodes.       *)
ProviderData ==
    {[active |-> FALSE,
      episodes |-> <<Season(2, <<Episode(2, 1, 2)>>),
                     Season(10, <<Episode(10, 1, NoTime)>>)>>]}

(* Lines 170-183: the show fields written before the episodes are built.    *)
MergeHead(show, data) ==
    LET s1 == Put(Put(show, "active", data.active), "hiatus", FALSE)
        s2 == SetDefault(s1, "air_timezone", DefaultTimezone)
    IN  Put(s2, "air_timezone", ToTimezone(s2["air_timezone"]))

(* Lines 230-232: episodes replaced, accessed = the instant read at the     *)
(* start of the fetch, errors = 0.                                          *)
ReplaceEpisodesKeepOld(show, data) ==
    Put(show, "episodes", Get(show, "episodes", << >>) \o data.episodes)

(* Lines 187-230: episodes is built from the fetched seasons alone and      *)
(* assigned to show['episodes'].                                            *)
ReplaceEpisodes(show, data) == Put(show, "episodes", data.episodes)

MergeTailEpoch(show, data, fetch_now) ==
    Put(Put(ReplaceEpisodes(show, data), "accessed", 0), "errors", 0)

MergeTail(show, data, fetch_now) ==
    Put(Put(ReplaceEpisodes(show, data), "accessed", fetch_now), "errors", 0)

Merge(show, data, fetch_now) == MergeTail(MergeHead(show, data), data, fetch_now)

----------------------------------------------------------------------------
(* Store operations *)

SortedKeys(S) == SelectSeq(KeyOrder, LAMBDA k : k \in S)

Top == IF stack = << >> THEN "" ELSE stack[Len(stack)]

Pop == SubSeq(stack, 1, Len(stack) - 1)

show_add(store, show, timezone) ==
    LET s == SetDefault(store, show, << >>) IN
    IF ToTimezone(timezone) # NoTimezone
    THEN Put(s, show, Put(s[show], "air_timezone", ToTimezone(timezone)))
    ELSE s

show_remove(store, show) == [k \in DOMAIN store \ {show} |-> store[k]]

----------------------------------------------------------------------------
(* show_update: the refresh loop *)

LoopGuardNoLimit(store, frame) == frame.retry

LoopGuard(store, frame) ==
    frame.retry /\ store[frame.key]["errors"] < cfg.update_retry_num

ShouldSaveAlways(frame) == frame.auto_save

ShouldSave(frame) == frame.auto_save /\ frame.changed

(* Lines 432-434: the loop is over; the store is saved if auto_save and     *)
(* changed, and changed is returned.                                        *)
Finish(store, frame) ==
    /\ shows' = store
    /\ u' = frame
    /\ ret' = frame.changed
    /\ IF ShouldSave(frame)
       THEN \E outcome \in SaveOutcomes :
              /\ disk' = show_save_all(disk, store, outcome)
              /\ log' = Saved(outcome)
              /\ pc' = IF SaveRaises(outcome) THEN "raised" ELSE "upd_ret"
       ELSE /\ pc' = "upd_ret"
            /\ UNCHANGED <<disk, log>>

(* Lines 401-407 and next_tvdb.py 131-147: the loop test; when it passes,   *)
(* retry is cleared, the adapter reads the clock and sends the request.     *)
LoopOrFinish(store, frame) ==
    IF LoopGuard(store, frame)
    THEN /\ shows' = store
         /\ u' = [frame EXCEPT !.retry = FALSE, !.fetch_now = now]
         /\ pc' = "upd_fetch"
         /\ UNCHANGED <<disk, log, ret>>
    ELSE Finish(store, frame)

NotDueNever(r) == FALSE

(* Lines 393-395: if not self.show_update_should(key, force_check): return  *)
NotDue(r) == ~r.ret

(* Lines 393-399 on the store `store`: the staleness gate, the frame of the *)
(* loop, errors defaulted to 0.  `callers` is the stack the call returns    *)
(* through.                                                                 *)
UpdateEnter(store, key, force_check, auto_save, callers) ==
    LET r     == show_update_should(store[key], now, force_check)
        frame == [UIdle EXCEPT !.key = key, !.force_check = force_check,
                               !.auto_save = auto_save, !.pre = store[key]]
    IN  /\ stack' = callers
        /\ IF NotDue(r)
           THEN /\ shows' = Put(store, key, r.show)
                /\ u' = frame
                /\ ret' = FALSE
                /\ pc' = "upd_ret"
                /\ UNCHANGED <<disk, log>>
           ELSE LoopOrFinish(Put(store, key, SetDefault(r.show, "errors", 0)),
                             [frame EXCEPT !.retry = TRUE, !.due = TRUE,
                                           !.error_sleep = cfg.update_retry_delay])

FailureAccountingReset(show) == Put(show, "errors", 0)

(* Lines 428-430 *)
FailureAccounting(show) == Put(show, "errors", show["errors"] + 1)

FailedNoRetry(frame, outcome) ==
    [frame EXCEPT !.changed = TRUE, !.outcomes = Append(@, outcome)]

Failed(frame, outcome) ==
    [frame EXCEPT !.changed = TRUE, !.retry = cfg.update_retry,
                  !.outcomes = Append(@, outcome)]

(* The provider answers: success.  _show_update returns True.               *)
FetchOkOf(answers) ==
    /\ pc = "upd_fetch"
    /\ \E data \in answers :
        LoopOrFinish(Put(shows, u.key, Merge(shows[u.key], data, u.fetch_now)),
                     [u EXCEPT !.changed = TRUE, !.outcomes = Append(@, "ok")])
    /\ UNCHANGED <<lock, t2, prior, temp, sv>>
    /\ UNCHANGED <<cfg, now, stack, b, c, ca, results>>

FetchOk == FetchOkOf(ProviderData)

GivenUpBeyond == cfg.update_retry_num + 1

(* line 410: the errors value that ends the retries *)
GivenUp == cfg.update_retry_num

NotFoundRecordNoAccess(show) == Put(show, "errors", GivenUp)

NotFoundRecord(show) ==
    Put(Put(show, "errors", GivenUp), "accessed", now)

NotFoundStoreRemoved(store, key) == [k \in DOMAIN store \ {key} |-> store[k]]

(* Lines 410-413 write into self.shows[key]; the show stays in the store.   *)
NotFoundStore(store, key) == Put(store, key, NotFoundRecord(store[key]))

(* TVNextNotFoundException, lines 408-415: break *)
FetchNotFound ==
    /\ pc = "upd_fetch"
    /\ Finish(NotFoundStore(shows, u.key),
              [u EXCEPT !.changed = TRUE, !.outcomes = Append(@, "notfound")])
    /\ UNCHANGED <<lock, t2, prior, temp, sv>>
    /\ UNCHANGED <<cfg, now, stack, b, c, ca, results>>

BackoffLinear(error_sleep) == error_sleep + cfg.update_retry_delay

(* Line 425: error_sleep *= 2.0 *)
Backoff(error_sleep) == error_sleep * 2

(* "connection reset by peer", lines 416-430: sleep, double the delay *)
FetchReset ==
    /\ pc = "upd_fetch"
    /\ LoopOrFinish(Put(shows, u.key, FailureAccounting(shows[u.key])),
                    [Failed(u, "reset") EXCEPT !.slept = Append(@, u.error_sleep),
                                               !.error_sleep = Backoff(@)])
    /\ UNCHANGED <<lock, t2, prior, temp, sv>>
    /\ UNCHANGED <<cfg, now, stack, b, c, ca, results>>

(* Any other exception, raised before the adapter has written to the record *)
FetchOther ==
    /\ pc = "upd_fetch"
    /\ LoopOrFinish(Put(shows, u.key, FailureAccounting(shows[u.key])),
                    Failed(u, "other"))
    /\ UNCHANGED <<lock, t2, prior, temp, sv>>
    /\ UNCHANGED <<cfg, now, stack, b, c, ca, results>>

(* An exception raised while the adapter builds the record (an unparsable   *)
(* air time at next_tvdb.py 185, a missing episode field at 199-203): the   *)
(* fields of lines 170-183 are already written.                             *)
FetchOtherLate ==
    /\ pc = "upd_fetch"
    /\ \E data \in ProviderData :
        LoopOrFinish(Put(shows, u.key,
                         FailureAccounting(MergeHead(shows[u.key], data))),
                     Failed(u, "other"))
    /\ UNCHANGED <<lock, t2, prior, temp, sv>>
    /\ UNCHANGED <<cfg, now, stack, b, c, ca, results>>

----------------------------------------------------------------------------
(* check: the window query, lines 489-543 *)

Today(t) == t \div TicksPerDay

DateOf(t) == t \div TicksPerDay

(* delta_min / delta_max: None, an int of days, or a date *)
DayMin(delta, today) ==
    IF delta[1] = "date" THEN delta[2]
    ELSE IF delta[1] = "days" THEN today - delta[2]
    ELSE today

DayMax(delta, today) ==
    IF delta[1] = "date" THEN delta[2]
    ELSE IF delta[1] = "days" THEN today + delta[2]
    ELSE today

CheckWindow(delta_min, delta_max, today) ==
    LET lo == DayMin(delta_min, today)
        hi == DayMax(delta_max, today)
    IN  IF lo > hi THEN [day_min |-> hi, day_max |-> lo]
        ELSE [day_min |-> lo, day_max |-> hi]

InWindowExclusive(ep, w) ==
    /\ ep.aired # NoTime
    /\ ~(DateOf(ep.aired) >= w.day_max \/ DateOf(ep.aired) <= w.day_min)

InWindow(ep, w) ==
    /\ ep.aired # NoTime
    /\ ~(DateOf(ep.aired) > w.day_max \/ DateOf(ep.aired) < w.day_min)

CheckQuery(key, show, w) ==
    LET eps == Reverse(show_episodes_flatten(show))
        hit == SelectSeq(eps, LAMBDA ep : InWindow(ep, w))
    IN  [i \in 1..Len(hit) |-> <<key, hit[i]>>]

----------------------------------------------------------------------------
(* Calls and returns.  The running operations form a stack: check_all calls *)
(* show_update_all and check, check calls show_update, show_update_all      *)
(* calls show_update.                                                       *)

Idle == pc = "idle"

Succeeded == \E i \in 1..Len(u.outcomes) : u.outcomes[i] = "ok"

AllFailed ==
    /\ u.outcomes # << >>
    /\ \A i \in 1..Len(u.outcomes) : u.outcomes[i] \in {"reset", "other"}

(* show_update(key, force_check, auto_save) called by the user *)
ShowUpdate ==
    /\ Idle
    /\ \E key \in DOMAIN shows, force_check \in BOOLEAN, auto_save \in BOOLEAN :
        UpdateEnter(shows, key, force_check, auto_save, << >>)
    /\ UNCHANGED <<lock, t2, prior, temp, sv>>
    /\ UNCHANGED <<cfg, now, b, c, ca, results>>

(* ... for a key the store does not hold: self._shows[key] at line 310      *)
(* raises KeyError out of show_update.                                      *)
ShowUpdateMissing ==
    /\ Idle
    /\ \E key \in SpecKeys \ DOMAIN shows : pc' = "raised"
    /\ UNCHANGED <<lock, t2, prior, temp, sv>>
    /\ UNCHANGED <<cfg, shows, disk, now, stack, u, b, c, ca, ret, results, log>>

Raised ==
    /\ pc = "raised"
    /\ pc' = "idle"
    /\ UNCHANGED <<lock, t2, prior, temp, sv>>
    /\ UNCHANGED <<cfg, shows, disk, now, stack, u, b, c, ca, ret, results, log>>

(* show_update returns to the user *)
UpdateReturn ==
    /\ pc = "upd_ret"
    /\ Top = ""
    /\ pc' = "idle"
    /\ u' = UIdle
    /\ ret' = FALSE
    /\ log' = LogIdle
    /\ UNCHANGED <<lock, t2, prior, temp, sv>>
    /\ UNCHANGED <<cfg, shows, disk, now, stack, b, c, ca, results>>

(* show_update_all(force_check, auto_save), lines 457-462 *)
BatchEnter(force_check, auto_save, callers) ==
    /\ b' = [BIdle EXCEPT !.queue = SortedKeys(DOMAIN shows),
                          !.keys = SortedKeys(DOMAIN shows),
                          !.force_check = force_check,
                          !.auto_save = auto_save]
    /\ stack' = callers
    /\ pc' = "batch_loop"

ShowUpdateAll ==
    /\ Idle
    /\ \E force_check \in BOOLEAN, auto_save \in BOOLEAN :
        BatchEnter(force_check, auto_save, << >>)
    /\ UNCHANGED <<lock, t2, prior, temp, sv>>
    /\ UNCHANGED <<cfg, shows, disk, now, u, c, ca, ret, results, log>>

(* for key in sorted(shows): changed = self.show_update(...) or changed *)
BatchStep ==
    /\ pc = "batch_loop"
    /\ b.queue # << >>
    /\ UpdateEnter(shows, Head(b.queue), b.force_check, b.auto_save,
                   Append(stack, "batch"))
    /\ UNCHANGED <<lock, t2, prior, temp, sv>>
    /\ UNCHANGED <<cfg, now, b, c, ca, results>>

BatchChangedLast(changed, returned) == returned

BatchChanged(changed, returned) == returned \/ changed

UpdateReturnBatch ==
    /\ pc = "upd_ret"
    /\ Top = "batch"
    /\ b' = [b EXCEPT !.changed = BatchChanged(@, ret),
                      !.queue = Tail(@),
                      !.done = Append(@, u.key),
                      !.ok = IF Succeeded THEN @ \cup {u.key} ELSE @,
                      !.failed = IF AllFailed THEN @ \cup {u.key} ELSE @,
                      !.returned = IF ret THEN @ \cup {u.key} ELSE @]
    /\ stack' = Pop
    /\ u' = UIdle
    /\ pc' = "batch_loop"
    /\ UNCHANGED <<lock, t2, prior, temp, sv>>
    /\ UNCHANGED <<cfg, shows, disk, now, c, ca, ret, results, log>>

BatchShouldSaveChanged(frame) == frame.changed

(* Lines 461-462: if not auto_save and changed *)
BatchShouldSave(frame) == ~frame.auto_save /\ frame.changed

BatchFinishSave ==
    /\ pc = "batch_loop"
    /\ b.queue = << >>
    /\ BatchShouldSave(b)
    /\ \E outcome \in SaveOutcomes :
        /\ disk' = show_save_all(disk, shows, outcome)
        /\ log' = Saved(outcome)
        /\ pc' = IF SaveRaises(outcome) THEN "raised" ELSE "batch_ret"
    /\ UNCHANGED <<lock, t2, prior, temp, sv>>
    /\ UNCHANGED <<cfg, shows, now, stack, u, b, c, ca, ret, results>>

BatchFinishNoSave ==
    /\ pc = "batch_loop"
    /\ b.queue = << >>
    /\ ~BatchShouldSave(b)
    /\ pc' = "batch_ret"
    /\ UNCHANGED <<lock, t2, prior, temp, sv>>
    /\ UNCHANGED <<cfg, shows, disk, now, stack, u, b, c, ca, ret, results, log>>

BatchReturn ==
    /\ pc = "batch_ret"
    /\ Top = ""
    /\ pc' = "idle"
    /\ b' = BIdle
    /\ ret' = FALSE
    /\ log' = LogIdle
    /\ UNCHANGED <<lock, t2, prior, temp, sv>>
    /\ UNCHANGED <<cfg, shows, disk, now, stack, u, c, ca, results>>

(* check(key, force_check, delta_min, delta_max, auto_save), lines 487-523: *)
(* the window, the missing show added, show_update called.                  *)
Deltas == {<<<<"days", 0>>, <<"days", 1>>>>,
           <<<<"days", 1>>, <<"date", 0>>>>}

CheckEnter(key, force_check, delta_min, delta_max, auto_save, callers) ==
    LET w     == CheckWindow(delta_min, delta_max, Today(now))
        store == IF key \notin DOMAIN shows
                 THEN show_add(shows, key, NoTimezone) ELSE shows
    IN  /\ CanAcquire(lock, "t1")
        /\ lock' = IF key \notin DOMAIN shows
                   THEN Release(Acquire(Acquire(lock, "t1"), "t1"))
                   ELSE Acquire(lock, "t1")
        /\ c' = [CIdle EXCEPT !.key = key, !.day_min = w.day_min,
                              !.day_max = w.day_max]
        /\ UpdateEnter(store, key, force_check, auto_save, Append(callers, "check"))

Check ==
    /\ Idle
    /\ \E key \in SpecKeys, force_check \in BOOLEAN, auto_save \in BOOLEAN,
          d \in Deltas :
        CheckEnter(key, force_check, d[1], d[2], auto_save, << >>)
    /\ UNCHANGED <<t2, prior, temp, sv>>
    /\ UNCHANGED <<cfg, now, b, ca, results>>

(* Lines 526-543: show_update has returned, the episodes are searched.      *)
UpdateReturnCheck ==
    /\ pc = "upd_ret"
    /\ Top = "check"
    /\ results' = CheckQuery(c.key, shows[c.key], c)
    /\ c' = [c EXCEPT !.ok = \E i \in 1..Len(u.outcomes) : u.outcomes[i] = "ok",
                      !.changed = ret]
    /\ stack' = Pop
    /\ u' = UIdle
    /\ pc' = "chk_ret"
    /\ UNCHANGED <<lock, t2, prior, temp, sv>>
    /\ UNCHANGED <<cfg, shows, disk, now, b, ca, ret, log>>

CheckReturn ==
    /\ pc = "chk_ret"
    /\ Top = ""
    /\ pc' = "idle"
    /\ c' = CIdle
    /\ results' = << >>
    /\ ret' = FALSE
    /\ log' = LogIdle
    /\ lock' = Release(lock)
    /\ UNCHANGED <<t2, prior, temp, sv>>
    /\ UNCHANGED <<cfg, shows, disk, now, stack, u, b, ca>>

(* check_all(keys, delta_min, delta_max, force_check, auto_save) *)
KeyLists == {<<"a">>, <<"a", "a">>}

CheckAllFrame(queue, given, force_check, auto_save, d) ==
    [CAIdle EXCEPT !.queue = queue, !.force_check = force_check,
                   !.auto_save = auto_save,
                   !.delta_min = d[1], !.delta_max = d[2],
                   !.given = given, !.keys = queue]

(* keys is None: lines 572-574 *)
CheckAll ==
    /\ Idle
    /\ \E force_check \in BOOLEAN, auto_save \in BOOLEAN, d \in Deltas :
        /\ ca' = CheckAllFrame(SortedKeys(DOMAIN shows), FALSE, force_check,
                            auto_save, d)
        /\ BatchEnter(force_check, auto_save, <<"check_all">>)
    /\ CanAcquire(lock, "t1")
    /\ lock' = Acquire(lock, "t1")
    /\ UNCHANGED <<t2, prior, temp, sv>>
    /\ UNCHANGED <<cfg, shows, disk, now, u, c, ret, results, log>>

(* lines 576-577: "All updates allready done" *)
BatchReturnCheckAll ==
    /\ pc = "batch_ret"
    /\ Top = "check_all"
    /\ ca' = [ca EXCEPT !.force_check = FALSE, !.auto_save = FALSE,
                        !.batch_done = TRUE, !.refreshed = b.ok # {}]
    /\ stack' = Pop
    /\ b' = BIdle
    /\ pc' = "ca_loop"
    /\ UNCHANGED <<lock, t2, prior, temp, sv>>
    /\ UNCHANGED <<cfg, shows, disk, now, u, c, ret, results, log>>

CheckAllOf(lists) ==
    /\ Idle
    /\ \E keys \in lists, force_check \in BOOLEAN, auto_save \in BOOLEAN,
          d \in Deltas :
        ca' = CheckAllFrame(keys, TRUE, force_check, auto_save, d)
    /\ pc' = "ca_loop"
    /\ CanAcquire(lock, "t1")
    /\ lock' = Acquire(lock, "t1")
    /\ UNCHANGED <<t2, prior, temp, sv>>
    /\ UNCHANGED <<cfg, shows, disk, now, stack, u, b, c, ret, results, log>>

CheckAllKeys == CheckAllOf(KeyLists)

(* for key in keys: results.extend(self.check(...)) *)
CheckAllStep ==
    /\ pc = "ca_loop"
    /\ ca.queue # << >>
    /\ CheckEnter(Head(ca.queue), ca.force_check, ca.delta_min, ca.delta_max,
                  ca.auto_save, <<"check_all">>)
    /\ ca' = [ca EXCEPT !.order = Append(@, Head(ca.queue))]
    /\ UNCHANGED <<t2, prior, temp, sv>>
    /\ UNCHANGED <<cfg, now, b, results>>

(* The pairs ordered by aired instant, stable. *)
RECURSIVE ByAired(_)
ByAired(pairs) ==
    IF pairs = << >> THEN << >>
    ELSE LET lo == CHOOSE i \in 1..Len(pairs) :
                       \A j \in 1..Len(pairs) :
                           \/ pairs[i][2].aired < pairs[j][2].aired
                           \/ pairs[i][2].aired = pairs[j][2].aired /\ i <= j
         IN  <<pairs[lo]>>
             \o ByAired(SubSeq(pairs, 1, lo - 1)
                        \o SubSeq(pairs, lo + 1, Len(pairs)))

ExtendSorted(results_, more) == ByAired(results_ \o more)

(* line 584: results.extend(...) *)
Extend(results_, more) == results_ \o more

CheckReturnCheckAll ==
    /\ pc = "chk_ret"
    /\ Top = "check_all"
    /\ ca' = [ca EXCEPT !.results = Extend(@, results), !.queue = Tail(@),
                        !.refreshed = @ \/ c.ok, !.later = @ \/ c.changed]
    /\ stack' = Pop
    /\ c' = CIdle
    /\ results' = << >>
    /\ pc' = "ca_loop"
    /\ lock' = Release(lock)
    /\ UNCHANGED <<t2, prior, temp, sv>>
    /\ UNCHANGED <<cfg, shows, disk, now, u, b, ret, log>>

CheckAllFinish ==
    /\ pc = "ca_loop"
    /\ ca.queue = << >>
    /\ results' = ca.results
    /\ pc' = "ca_ret"
    /\ UNCHANGED <<lock, t2, prior, temp, sv>>
    /\ UNCHANGED <<cfg, shows, disk, now, stack, u, b, c, ca, ret, log>>

CheckAllReturn ==
    /\ pc = "ca_ret"
    /\ pc' = "idle"
    /\ ca' = CAIdle
    /\ results' = << >>
    /\ ret' = FALSE
    /\ log' = LogIdle
    /\ lock' = Release(lock)
    /\ UNCHANGED <<t2, prior, temp, sv>>
    /\ UNCHANGED <<cfg, shows, disk, now, stack, u, b, c>>

(* show_add(show, timezone), show_remove(show), show_save_all() *)
AddTimezones == {NoTimezone}

ShowAdd ==
    /\ Idle
    /\ \E show \in SpecKeys, timezone \in AddTimezones :
        shows' = show_add(shows, show, timezone)
    /\ CanAcquire(lock, "t1")
    /\ UNCHANGED <<lock, t2, prior, temp, sv>>
    /\ UNCHANGED <<cfg, disk, now, pc, stack, u, b, c, ca, ret, results, log>>

ShowRemove ==
    /\ Idle
    /\ \E show \in SpecKeys : shows' = show_remove(shows, show)
    /\ CanAcquire(lock, "t1")
    /\ UNCHANGED <<lock, t2, prior, temp, sv>>
    /\ UNCHANGED <<cfg, disk, now, pc, stack, u, b, c, ca, ret, results, log>>

ShowSaveAll ==
    /\ Idle
    /\ \E outcome \in SaveOutcomes :
        /\ disk' = show_save_all(disk, shows, outcome)
        /\ pc' = IF SaveRaises(outcome) THEN "raised" ELSE pc
    /\ UNCHANGED <<lock, t2, prior, temp, sv>>
    /\ UNCHANGED <<cfg, shows, now, stack, u, b, c, ca, ret, results, log>>

(* Time passes between the user's calls and while a request to the provider *)
(* is in flight.                                                            *)
Tick ==
    /\ pc \in {"idle", "upd_fetch"}
    /\ now < MaxTime
    /\ now' = now + 1
    /\ UNCHANGED <<lock, t2, prior, temp, sv>>
    /\ UNCHANGED <<cfg, shows, disk, pc, stack, u, b, c, ca, ret, results, log>>

----------------------------------------------------------------------------
(* The program *)

SpecConfigs ==
    {Cfg(1, NoInterval, 1, NoInterval, 1, n, TRUE) : n \in {1, 3}}
    \cup {Cfg(1, NoInterval, 1, NoInterval, 1, 3, FALSE)}

Init ==
    /\ cfg \in SpecConfigs
    /\ shows = << >>
    /\ disk = << >>
    /\ now = 0
    /\ pc = "idle"
    /\ stack = << >>
    /\ u = UIdle
    /\ b = BIdle
    /\ c = CIdle
    /\ ca = CAIdle
    /\ ret = FALSE
    /\ results = << >>
    /\ log = LogIdle
    /\ lock = LockFree
    /\ t2 = T2Idle
    /\ prior = << >>
    /\ temp = << >>
    /\ sv = SVIdle

Next ==
    \/ ShowAdd
    \/ ShowRemove
    \/ ShowSaveAll
    \/ ShowUpdate
    \/ ShowUpdateMissing
    \/ Raised
    \/ FetchOk
    \/ FetchNotFound
    \/ FetchReset
    \/ FetchOther
    \/ FetchOtherLate
    \/ UpdateReturn
    \/ UpdateReturnBatch
    \/ UpdateReturnCheck
    \/ ShowUpdateAll
    \/ BatchStep
    \/ BatchFinishSave
    \/ BatchFinishNoSave
    \/ BatchReturn
    \/ BatchReturnCheckAll
    \/ Check
    \/ CheckReturn
    \/ CheckReturnCheckAll
    \/ CheckAll
    \/ CheckAllKeys
    \/ CheckAllStep
    \/ CheckAllFinish
    \/ CheckAllReturn
    \/ Tick

Spec == Init /\ [][Next]_vars

----------------------------------------------------------------------------
(* Specification of one show_update_all over a store of two shows.  The     *)
(* records are those the program leaves behind: a show just added, a show   *)
(* fetched at instant 0 (with the current or with an earlier answer of the  *)
(* provider), a show the provider did not find at instant 0, a never-       *)
(* fetched show whose retries are exhausted.                                *)

(* What the provider answered for a show at an earlier fetch. *)
OlderData ==
    [active |-> TRUE, episodes |-> <<Season(1, <<Episode(1, 1, 0)>>)>>]

BatchRecords ==
    {<< >>,
     ("errors" :> cfg.update_retry_num),
     ("errors" :> cfg.update_retry_num) @@ ("accessed" :> 0),
     Merge(<< >>, OlderData, 0)}
    \cup {Merge(<< >>, data, 0) : data \in ProviderData}

BatchInit ==
    /\ cfg \in SpecConfigs
    /\ shows \in [Keys -> BatchRecords]
    /\ disk = << >>
    /\ now = 0
    /\ pc = "idle"
    /\ stack = << >>
    /\ u = UIdle
    /\ b = BIdle
    /\ c = CIdle
    /\ ca = CAIdle
    /\ ret = FALSE
    /\ results = << >>
    /\ log = LogIdle
    /\ lock = LockFree
    /\ t2 = T2Idle
    /\ prior = << >>
    /\ temp = << >>
    /\ sv = SVIdle

(* show_update_all has returned to the user; its frame is kept. *)
BatchDone ==
    /\ pc = "batch_ret"
    /\ Top = ""
    /\ pc' = "done"
    /\ UNCHANGED <<lock, t2, prior, temp, sv>>
    /\ UNCHANGED <<cfg, shows, disk, now, stack, u, b, c, ca, ret, results, log>>

BatchNext ==
    \/ ShowUpdateAll
    \/ BatchStep
    \/ FetchOk
    \/ FetchNotFound
    \/ FetchReset
    \/ FetchOther
    \/ FetchOtherLate
    \/ UpdateReturnBatch
    \/ BatchFinishSave
    \/ BatchFinishNoSave
    \/ BatchDone
    \/ Tick

BatchSpec == BatchInit /\ [][BatchNext]_vars

----------------------------------------------------------------------------
(* Properties of show_update, checked under Spec *)

Returned == pc = "upd_ret"

Errors(show) == Get(show, "errors", 0)

Accessed(show) == Get(show, "accessed", NoTime)

LastOutcome(frame) ==
    IF frame.outcomes = << >> THEN "" ELSE frame.outcomes[Len(frame.outcomes)]

(* Provider calls made by the show_update in progress: the answered ones    *)
(* and the one in flight.                                                   *)
ProviderCalls == Len(u.outcomes) + (IF pc = "upd_fetch" THEN 1 ELSE 0)

NeverAccessedNoErrors(show) ==
    "accessed" \notin DOMAIN show /\ Errors(show) = 0

(* C1: when show_update on a never-accessed key without prior errors gets   *)
(* NotFound from the provider, it returns changed = true with errors =      *)
(* max_retries and accessed = the current instant, after exactly one        *)
(* provider call, whatever the should-retry flag is.                        *)
C1_NotFoundExhaustsAtOnce ==
    (/\ Returned
     /\ NeverAccessedNoErrors(u.pre)
     /\ u.outcomes # << >>
     /\ u.outcomes[1] = "notfound")
    => /\ ret = TRUE
       /\ shows[u.key]["errors"] = cfg.update_retry_num
       /\ "accessed" \in DOMAIN shows[u.key]
       /\ shows[u.key]["accessed"] = now
       /\ Len(u.outcomes) = 1

C1_Witness ==
    /\ Returned
    /\ NeverAccessedNoErrors(u.pre)
    /\ u.outcomes = <<"notfound">>
    /\ cfg.update_retry
    /\ cfg.update_retry_num = 3

(* C2: a show_update call makes at most max_retries provider calls, at most *)
(* one when should-retry is false, and every provider answer either ends    *)
(* the call or uses up one of these calls, so the loop cannot run forever.  *)
C2_ProviderCallsBounded ==
    /\ ProviderCalls <= cfg.update_retry_num
    /\ ~cfg.update_retry => ProviderCalls <= 1
    /\ Returned => Len(u.outcomes) <= cfg.update_retry_num

C2_Witness ==
    /\ Returned
    /\ cfg.update_retry
    /\ cfg.update_retry_num = 3
    /\ u.outcomes = <<"reset", "other", "reset">>

(* C3 as stated: a show_update that passes the staleness gate calls the     *)
(* provider at least once.                                                  *)
C3_AsStated ==
    (Returned /\ u.due) => Len(u.outcomes) >= 1

(* C3 as stated, for forced calls only: a forced update always reaches the  *)
(* provider.                                                                *)
C3_ForcedAsStated ==
    (Returned /\ u.force_check) => Len(u.outcomes) >= 1

RefreshSucceeds(k) ==
    /\ pc = "upd_fetch"
    /\ u.key = k
    /\ LastOutcome(u') = "ok"
    /\ Len(u'.outcomes) = Len(u.outcomes) + 1

(* The error-retry rule of show_update_should, evaluated when show_update   *)
(* is entered: errors >= 3 are set to max(1, max_retries - 1).              *)
ErrorRetryCaps(k) ==
    /\ pc \in {"idle", "batch_loop", "ca_loop"}
    /\ pc' \in {"upd_fetch", "upd_ret"}
    /\ u'.key = k
    /\ Errors(shows[k]) >= 3
    /\ Errors(shows'[k]) = ErrorRetryCap

C7_AsStatedStep ==
    \A k \in DOMAIN shows \cap DOMAIN shows' :
        Errors(shows'[k]) < Errors(shows[k])
        => RefreshSucceeds(k) /\ Errors(shows'[k]) = 0

(* C7 as stated: errors never decreases from one state to the next, except  *)
(* when a refresh succeeds and resets it to 0.                              *)
C7_AsStated == [][C7_AsStatedStep]_vars

C7_Step ==
    \A k \in DOMAIN shows \cap DOMAIN shows' :
        Errors(shows'[k]) < Errors(shows[k])
        => \/ RefreshSucceeds(k) /\ Errors(shows'[k]) = 0
           \/ ErrorRetryCaps(k)

(* C7: errors never decreases from one state to the next, except when a     *)
(* refresh succeeds and resets it to 0, or when the error-retry rule of     *)
(* show_update_should matches and sets it to max(1, max_retries - 1).       *)
C7_ErrorsDecreaseOnlyBySuccessOrCap == [][C7_Step]_vars

C7_Witness ==
    /\ pc = "upd_fetch"
    /\ u.outcomes = << >>
    /\ Errors(u.pre) = 3
    /\ shows[u.key]["errors"] = 2

Exhausted ==
    /\ Returned
    /\ AllFailed
    /\ shows[u.key]["errors"] = cfg.update_retry_num

(* C8 as stated: when show_update ends with retries exhausted by failures,  *)
(* accessed is the instant the attempt cycle completed.                     *)
C8_AsStated ==
    Exhausted => /\ "accessed" \in DOMAIN shows[u.key]
                 /\ shows[u.key]["accessed"] = now

(* C8, weaker reading: after an exhausted cycle the record has an accessed  *)
(* value at all.                                                            *)
C8_AccessedPresentAsStated ==
    Exhausted => "accessed" \in DOMAIN shows[u.key]

AccessedOf(store, k) == IF k \in DOMAIN store THEN Accessed(store[k]) ELSE NoTime

AttemptCompletes(k) ==
    /\ pc = "upd_fetch"
    /\ u.key = k
    /\ Len(u'.outcomes) = Len(u.outcomes) + 1
    /\ LastOutcome(u') \in {"ok", "notfound"}

C9_AsStatedStep ==
    \A k \in DOMAIN shows' :
        /\ AccessedOf(shows', k) # AccessedOf(shows, k)
           => AttemptCompletes(k) /\ AccessedOf(shows', k) = now
        /\ AccessedOf(shows', k) >= AccessedOf(shows, k)

(* C9 as stated: accessed changes only when a refresh attempt completes     *)
(* (success or NotFound), the new value is the current instant, and         *)
(* accessed never decreases.                                                *)
C9_AsStated == [][C9_AsStatedStep]_vars

C9_Step ==
    \A k \in DOMAIN shows' :
        /\ AccessedOf(shows', k) # AccessedOf(shows, k)
           => /\ AttemptCompletes(k)
              /\ LastOutcome(u') = "ok" => AccessedOf(shows', k) = u.fetch_now
              /\ LastOutcome(u') = "notfound" => AccessedOf(shows', k) = now
              /\ AccessedOf(shows', k) <= now
        /\ AccessedOf(shows', k) >= AccessedOf(shows, k)

(* C9: accessed changes only when a refresh attempt completes (success or   *)
(* NotFound); after NotFound the new value is the current instant, after a  *)
(* success it is the instant the adapter read when the attempt started,     *)
(* which is not later than the current instant; accessed never decreases.   *)
C9_AccessedSetOnlyByAttempt == [][C9_Step]_vars

C9_Witness ==
    /\ Returned
    /\ LastOutcome(u) = "ok"
    /\ "accessed" \in DOMAIN u.pre
    /\ shows[u.key]["accessed"] > u.pre["accessed"]
    /\ shows[u.key]["accessed"] < now

----------------------------------------------------------------------------
(* Properties of show_update_all, checked under BatchSpec *)

BatchOver == pc \in {"batch_ret", "done"}

Persisted(k) ==
    /\ disk # << >>
    /\ k \in DOMAIN disk[1]
    /\ disk[1][k] = EncodeShow(shows[k])

Refreshed(k) ==
    /\ shows[k]["errors"] = 0
    /\ "accessed" \in DOMAIN shows[k]
    /\ \E data \in ProviderData : shows[k]["episodes"] = data.episodes

(* C10: in show_update_all a show whose provider calls all fail does not    *)
(* stop the batch: the keys handed to show_update are the keys of the store *)
(* in sorted order, each once, every one of them is in the store (no        *)
(* KeyError), and at the end the cache file, when its writes went through,  *)
(* holds the refreshed record of every show whose provider call succeeded.  *)
C10_BatchSurvivesFailures ==
    /\ pc = "batch_loop" => \A i \in 1..Len(b.queue) : b.queue[i] \in DOMAIN shows
    /\ pc = "batch_loop" => b.keys = b.done \o b.queue
    /\ BatchOver
       => /\ b.done = SortedKeys(DOMAIN shows)
          /\ \A k \in b.ok :
                /\ Refreshed(k)
                /\ ~log.save_failed => Persisted(k)

C10_Witness ==
    /\ pc = "done"
    /\ b.done = <<"a", "b">>
    /\ b.failed = {"a"}
    /\ shows["a"]["errors"] = cfg.update_retry_num
    /\ b.ok = {"b"}
    /\ ~b.auto_save
    /\ ~log.save_failed
    /\ Persisted("b")

----------------------------------------------------------------------------
(* Further properties of show_update, check_all and the store, checked      *)
(* under Spec                                                                *)

(* A step that enters show_update, from the user or from a caller. *)
EntersUpdate ==
    /\ pc \in {"idle", "batch_loop", "ca_loop"}
    /\ pc' \in {"upd_fetch", "upd_ret"}

(* A step after which show_update has reached its return statement. *)
EndsUpdate == pc # "upd_ret" /\ pc' = "upd_ret"

SavesStore == u'.auto_save /\ ret'

C11_Step ==
    /\ pc' = "upd_fetch" => disk' = disk /\ log' = log
    /\ EndsUpdate
       => /\ log'.saves = log.saves + (IF SavesStore THEN 1 ELSE 0)
          /\ ~SavesStore => disk' = disk /\ log' = log
          /\ SavesStore
             => /\ disk' \in {disk, <<EncodeStore(shows')>>}
                /\ ~log'.save_failed => disk' = <<EncodeStore(shows')>>

(* C11: show_update calls show_save_all, once and with the full store, if   *)
(* and only if auto_save is set and the call returns changed = true; a call *)
(* that returns false, and every step before the return, writes nothing.    *)
C11_SavesIffAutoSaveAndChanged == [][C11_Step]_vars

C11_Witness ==
    /\ Returned
    /\ stack = << >>
    /\ u.auto_save
    /\ ret
    /\ log.saves = 1
    /\ disk = <<EncodeStore(shows)>>

(* C14 as stated: after the batch refresh of check_all with keys omitted,   *)
(* the per-show check calls never invoke the provider.                      *)
C14_AsStated ==
    ~(pc = "upd_fetch" /\ Top = "check" /\ ca.batch_done)

SameField(a, b_, f) ==
    /\ (f \in DOMAIN a) = (f \in DOMAIN b_)
    /\ f \in DOMAIN a => a[f] = b_[f]

C18_Step ==
    (/\ EntersUpdate
     /\ ~u'.force_check
     /\ ~show_update_should(u'.pre, now, FALSE).ret)
    => /\ pc' = "upd_ret"
       /\ ret' = FALSE
       /\ u'.outcomes = << >>
       /\ u'.slept = << >>
       /\ disk' = disk
       /\ log' = log
       /\ \A f \in {"accessed", "errors", "episodes"} :
             SameField(shows'[u'.key], u'.pre, f)

(* C18: a show_update on a show that is not due, without force, returns     *)
(* false at once: no provider call, no sleep, no save, and the record's     *)
(* accessed, errors and episodes are as they were.                          *)
C18_NotDueIsNoOp == [][C18_Step]_vars

C18_Witness ==
    /\ Returned
    /\ ~u.due
    /\ ~u.force_check
    /\ "accessed" \in DOMAIN u.pre
    /\ u.pre["episodes"] # << >>
    /\ shows[u.key]["episodes"] = u.pre["episodes"]
    /\ ret = FALSE

(* C20 as stated: show_update on a key the store does not hold creates the  *)
(* record and refreshes it, it does not fail.                               *)
C20_AsStated == pc # "raised"

----------------------------------------------------------------------------
(* Further properties of show_update_all and of a successful fetch, checked *)
(* under BatchSpec                                                           *)

InBatch == pc \in {"batch_loop", "upd_fetch", "upd_ret"}

(* C12: show_update_all with auto_save false writes nothing while keys are  *)
(* processed and calls show_save_all once after the last key if some        *)
(* show_update returned true, never if none did; with auto_save true the    *)
(* only saves are those of the show_update calls that returned true, one    *)
(* each, and there is no save at the end.                                   *)
C12_BatchSavesOnceAtEnd ==
    /\ (InBatch /\ ~b.auto_save) => log.saves = 0 /\ disk = << >>
    /\ (BatchOver /\ ~b.auto_save)
       => /\ log.saves = (IF b.returned # {} THEN 1 ELSE 0)
          /\ log.saves = 0 => disk = << >>
          /\ (log.saves = 1 /\ ~log.save_failed) => disk = <<EncodeStore(shows)>>
    /\ (InBatch /\ b.auto_save)
       => log.saves = Cardinality(b.returned)
                      + (IF pc = "upd_ret" /\ ret THEN 1 ELSE 0)
    /\ (BatchOver /\ b.auto_save) => log.saves = Cardinality(b.returned)

C12_Witness ==
    /\ pc = "done"
    /\ ~b.auto_save
    /\ b.returned = {"a", "b"}
    /\ log.saves = 1
    /\ disk = <<EncodeStore(shows)>>

SeasonNrs(episodes) == {episodes[i].nr : i \in 1..Len(episodes)}

C19_Step ==
    (/\ pc = "upd_fetch"
     /\ Len(u'.outcomes) = Len(u.outcomes) + 1
     /\ LastOutcome(u') = "ok")
    => /\ \E data \in ProviderData : shows'[u.key]["episodes"] = data.episodes
       /\ shows'[u.key]["accessed"] = u.fetch_now
       /\ u.fetch_now <= now
       /\ shows'[u.key]["errors"] = 0
       /\ pc' = "upd_ret"
       /\ ret' = TRUE

----------------------------------------------------------------------------
(* Specification of one check(key, ...) on a show that holds two seasons    *)
(* of episodes with air dates from yesterday to tomorrow, or none.          *)

QueryAired == {NoTime} \cup {d * TicksPerDay : d \in 0..MaxQueryDay}

QueryEpisodes ==
    {<<Season(1, <<Episode(1, 1, x), Episode(1, 2, y)>>),
       Season(2, <<Episode(2, 1, z)>>)>> :
        x \in QueryAired, y \in QueryAired, z \in QueryAired}

QueryInit ==
    /\ cfg = Cfg(1, NoInterval, 1, NoInterval, 1, 3, TRUE)
    /\ now \in 0..MaxTime
    /\ \E e \in QueryEpisodes : shows = ("a" :> ShowRec(TRUE, FALSE, e, now, 0))
    /\ disk = << >>
    /\ pc = "idle"
    /\ stack = << >>
    /\ u = UIdle
    /\ b = BIdle
    /\ c = CIdle
    /\ ca = CAIdle
    /\ ret = FALSE
    /\ results = << >>
    /\ log = LogIdle
    /\ lock = LockFree
    /\ t2 = T2Idle
    /\ prior = << >>
    /\ temp = << >>
    /\ sv = SVIdle

(* check has returned to the user; its frame and its result are kept. *)
QueryDone ==
    /\ pc = "chk_ret"
    /\ Top = ""
    /\ pc' = "done"
    /\ UNCHANGED <<lock, t2, prior, temp, sv>>
    /\ UNCHANGED <<cfg, shows, disk, now, stack, u, b, c, ca, ret, results, log>>

QueryNext ==
    \/ Check
    \/ FetchOk
    \/ FetchNotFound
    \/ FetchReset
    \/ FetchOther
    \/ FetchOtherLate
    \/ UpdateReturnCheck
    \/ QueryDone

QuerySpec == QueryInit /\ [][QueryNext]_vars

Queried == pc \in {"chk_ret", "done"}

Qualifies(ep) ==
    /\ ep.aired # NoTime
    /\ c.day_min <= DateOf(ep.aired)
    /\ DateOf(ep.aired) <= c.day_max

PosIn(eps, ep) == CHOOSE i \in 1..Len(eps) : eps[i] = ep

(* C13: check returns exactly the episodes of the show whose aired date d   *)
(* satisfies day_min <= d <= day_max, each once, paired with the key,       *)
(* episodes without aired value left out, in the reverse of the flattened   *)
(* order of the store.                                                      *)
C13_CheckReturnsWindow ==
    Queried =>
        LET eps == show_episodes_flatten(shows[c.key]) IN
        /\ \A i \in 1..Len(results) :
              /\ results[i][1] = c.key
              /\ \E j \in 1..Len(eps) : eps[j] = results[i][2]
              /\ Qualifies(results[i][2])
        /\ \A j \in 1..Len(eps) :
              Qualifies(eps[j])
              => Cardinality({i \in 1..Len(results) : results[i][2] = eps[j]}) = 1
        /\ \A i \in 1..Len(results), k \in 1..Len(results) :
              i < k => PosIn(eps, results[i][2]) > PosIn(eps, results[k][2])

(* delta_min = 0, delta_max = 1, episodes aired yesterday, today and        *)
(* tomorrow: the result is the tomorrow and the today episode, in that      *)
(* order.                                                                   *)
C13_Witness ==
    /\ pc = "done"
    /\ u.outcomes = << >>
    /\ c.day_min = Today(now)
    /\ c.day_max = Today(now) + 1
    /\ LET eps == show_episodes_flatten(shows["a"]) IN
        /\ Len(eps) = 3
        /\ eps[1].aired # NoTime /\ DateOf(eps[1].aired) = Today(now) - 1
        /\ eps[2].aired # NoTime /\ DateOf(eps[2].aired) = Today(now)
        /\ eps[3].aired # NoTime /\ DateOf(eps[3].aired) = Today(now) + 1
        /\ results = <<<<"a", eps[3]>>, <<"a", eps[2]>>>>

----------------------------------------------------------------------------
(* Specification of saving the store and loading it in a new process.  The  *)
(* records are those the program leaves behind, and a show added with a     *)
(* timezone.                                                                *)

RoundTripRecords ==
    BatchRecords
    \cup {show_add(<< >>, "a", <<"str", "Europe/Vienna">>)["a"]}

RoundTripInit ==
    /\ cfg \in SpecConfigs
    /\ shows \in [Keys -> RoundTripRecords]
    /\ disk = << >>
    /\ now = 0
    /\ pc = "idle"
    /\ stack = << >>
    /\ u = UIdle
    /\ b = BIdle
    /\ c = CIdle
    /\ ca = CAIdle
    /\ ret = FALSE
    /\ results = << >>
    /\ log = LogIdle
    /\ lock = LockFree
    /\ t2 = T2Idle
    /\ prior = << >>
    /\ temp = << >>
    /\ sv = SVIdle

(* The process ends; a new TVNext is constructed, with an empty store, and  *)
(* started: start() loads the cache file.                                   *)
Restart ==
    /\ Idle
    /\ prior' = shows
    /\ shows' = start(<< >>, disk)
    /\ pc' = "started"
    /\ UNCHANGED <<temp, sv>>
    /\ UNCHANGED <<cfg, disk, now, stack, u, b, c, ca, ret, results, log, lock, t2>>

(* The new process is ready for calls. *)
Started ==
    /\ pc = "started"
    /\ prior # << >>
    /\ prior' = << >>
    /\ pc' = "idle"
    /\ UNCHANGED <<temp, sv>>
    /\ UNCHANGED <<cfg, shows, disk, now, stack, u, b, c, ca, ret, results, log,
                   lock, t2>>

RoundTripNext ==
    \/ ShowSaveAll
    \/ Restart
    \/ Started

RoundTripSpec == RoundTripInit /\ [][RoundTripNext]_vars

(* The store was saved and then loaded by the new process. *)
SavedAndLoaded ==
    /\ pc = "started"
    /\ disk = <<EncodeStore(prior)>>

IsTimezone(v) == v[1] = "tz"

(* C17 as stated: after show_save_all and start(), every show has the same  *)
(* episodes mapping (keys and records), the same accessed instant, and its  *)
(* air_timezone as a timezone object, not as a zone-name string.            *)
C17_AsStated ==
    SavedAndLoaded =>
        \A k \in DOMAIN prior :
            /\ k \in DOMAIN shows
            /\ SameField(shows[k], prior[k], "episodes")
            /\ SameField(shows[k], prior[k], "accessed")
            /\ ("air_timezone" \in DOMAIN prior[k]) = ("air_timezone" \in DOMAIN shows[k])
            /\ "air_timezone" \in DOMAIN shows[k] => IsTimezone(shows[k]["air_timezone"])

(* C17, the timezone alone: a loaded air_timezone is a timezone object.     *)
C17_TimezoneAsStated ==
    SavedAndLoaded =>
        \A k \in DOMAIN shows :
            "air_timezone" \in DOMAIN shows[k] => IsTimezone(shows[k]["air_timezone"])

(* C17, the instants alone: accessed comes back as it was saved.            *)
C17_AccessedKept ==
    SavedAndLoaded =>
        \A k \in DOMAIN prior :
            k \in DOMAIN shows /\ SameField(shows[k], prior[k], "accessed")

----------------------------------------------------------------------------
(* Two threads.  The first caller runs the operations above; its successful *)
(* fetch is taken in the two writes the adapter makes: the show fields of   *)
(* next_tvdb.py 170-183, then episodes, accessed and errors of lines        *)
(* 230-232.  A second thread calls show_add, show_remove and check.         *)

FetchOkHead ==
    /\ pc = "upd_fetch"
    /\ \E data \in ProviderData :
        /\ shows' = Put(shows, u.key, MergeHead(shows[u.key], data))
        /\ u' = [u EXCEPT !.data = data]
    /\ pc' = "upd_merge"
    /\ UNCHANGED <<lock, t2, prior, temp, sv>>
    /\ UNCHANGED <<cfg, disk, now, stack, b, c, ca, ret, results, log>>

FetchOkTail ==
    /\ pc = "upd_merge"
    /\ LoopOrFinish(Put(shows, u.key, MergeTail(shows[u.key], u.data, u.fetch_now)),
                    [u EXCEPT !.changed = TRUE, !.outcomes = Append(@, "ok"),
                              !.data = << >>])
    /\ UNCHANGED <<lock, t2, prior, temp, sv>>
    /\ UNCHANGED <<cfg, now, stack, b, c, ca, results>>

(* show_update as the second thread runs it inside check, taken in one      *)
(* step: the gate, then the loop over the provider's answers `outs`.        *)
Outcomes == {"ok", "notfound", "other"}

(* One answer per attempt the loop of lines 394-430 can make.                *)
Attempts == IF cfg.update_retry THEN cfg.update_retry_num ELSE 1

OutcomeSeqs == [1..Attempts -> Outcomes]

RECURSIVE RunLoop(_, _, _)
RunLoop(show, retry, outs) ==
    IF ~(retry /\ show["errors"] < cfg.update_retry_num) \/ outs = << >>
    THEN show
    ELSE IF Head(outs) = "ok"
         THEN Merge(show, CHOOSE data \in ProviderData : TRUE, now)
    ELSE IF Head(outs) = "notfound" THEN NotFoundRecord(show)
    ELSE RunLoop(FailureAccounting(show), cfg.update_retry, Tail(outs))

RunUpdate(show, force_check, outs) ==
    LET r == show_update_should(show, now, force_check) IN
    IF NotDue(r) THEN r.show
    ELSE RunLoop(SetDefault(r.show, "errors", 0), TRUE, outs)

T2Call(op, key) ==
    [T2Idle EXCEPT !.pc = "done", !.op = op, !.key = key]

T2ShowAdd ==
    /\ t2.pc = "idle"
    /\ CanAcquire(lock, "t2")
    /\ \E show \in SpecKeys :
        /\ shows' = show_add(shows, show, NoTimezone)
        /\ t2' = T2Call("show_add", show)
    /\ UNCHANGED <<lock, prior, temp, sv>>
    /\ UNCHANGED <<cfg, disk, now, pc, stack, u, b, c, ca, ret, results, log>>

(* The remove is taken where the first caller holds no record of the show   *)
(* in its hands.                                                            *)
T2ShowRemove ==
    /\ t2.pc = "idle"
    /\ pc \in {"idle", "ca_loop", "chk_ret", "ca_ret", "batch_ret"}
    /\ CanAcquire(lock, "t2")
    /\ \E show \in SpecKeys :
        /\ shows' = show_remove(shows, show)
        /\ t2' = T2Call("show_remove", show)
    /\ UNCHANGED <<lock, prior, temp, sv>>
    /\ UNCHANGED <<cfg, disk, now, pc, stack, u, b, c, ca, ret, results, log>>

(* check(key), lines 518-523: the lock, the missing show added, show_update *)
T2CheckEnter ==
    /\ t2.pc = "idle"
    /\ CanAcquire(lock, "t2")
    /\ lock' = Acquire(lock, "t2")
    /\ \E key \in SpecKeys, outs \in OutcomeSeqs :
        LET store == IF key \notin DOMAIN shows
                     THEN show_add(shows, key, NoTimezone) ELSE shows
        IN  /\ shows' = Put(store, key, RunUpdate(store[key], FALSE, outs))
            /\ t2' = [T2Call("check", key) EXCEPT !.pc = "query"]
    /\ UNCHANGED <<prior, temp, sv>>
    /\ UNCHANGED <<cfg, disk, now, pc, stack, u, b, c, ca, ret, results, log>>

(* check(key), lines 526-543: the record is read, the lock released.        *)
T2CheckQuery ==
    /\ t2.pc = "query"
    /\ t2' = [t2 EXCEPT !.pc = "done",
                        !.torn = /\ pc = "upd_merge"
                                 /\ u.key = t2.key
                                 /\ Get(shows[t2.key], "episodes", << >>)
                                        # u.data.episodes]
    /\ lock' = Release(lock)
    /\ UNCHANGED <<prior, temp, sv>>
    /\ UNCHANGED <<cfg, shows, disk, now, pc, stack, u, b, c, ca, ret, results, log>>

(* The second thread's call has returned.                                   *)
T2Return ==
    /\ t2.pc = "done"
    /\ t2' = T2Idle
    /\ UNCHANGED <<lock, prior, temp, sv>>
    /\ UNCHANGED <<cfg, shows, disk, now, pc, stack, u, b, c, ca, ret, results, log>>

ThreadInit ==
    /\ cfg = Cfg(1, NoInterval, 1, NoInterval, 1, 3, FALSE)
    /\ shows = ("a" :> Merge(<< >>, OlderData, 0))
    /\ disk = << >>
    /\ now = 0
    /\ pc = "idle"
    /\ stack = << >>
    /\ u = UIdle
    /\ b = BIdle
    /\ c = CIdle
    /\ ca = CAIdle
    /\ ret = FALSE
    /\ results = << >>
    /\ log = LogIdle
    /\ lock = LockFree
    /\ t2 = T2Idle
    /\ prior = << >>
    /\ temp = << >>
    /\ sv = SVIdle

ThreadNext ==
    \/ ShowAdd
    \/ ShowRemove
    \/ ShowUpdate
    \/ FetchOkHead
    \/ FetchOkTail
    \/ FetchNotFound
    \/ FetchReset
    \/ FetchOther
    \/ FetchOtherLate
    \/ UpdateReturn
    \/ UpdateReturnBatch
    \/ UpdateReturnCheck
    \/ BatchStep
    \/ BatchFinishSave
    \/ BatchFinishNoSave
    \/ BatchReturnCheckAll
    \/ CheckAll
    \/ CheckAllStep
    \/ CheckReturnCheckAll
    \/ CheckAllFinish
    \/ CheckAllReturn
    \/ T2ShowAdd
    \/ T2ShowRemove
    \/ T2CheckEnter
    \/ T2CheckQuery
    \/ T2Return

ThreadSpec == ThreadInit /\ [][ThreadNext]_vars

(* C15 as stated: the thread that queries through check never reads a show  *)
(* record on which a refresh of the other thread is only partly applied.    *)
C15_AsStated == ~t2.torn

InsideCheckAll ==
    \/ pc \in {"ca_loop", "ca_ret"}
    \/ \E i \in 1..Len(stack) : stack[i] = "check_all"

(* A step of the first caller that is a show_add or a show_remove, or that  *)
(* enters check_all.                                                        *)
FirstCallerLockedStep ==
    /\ t2' = t2
    /\ \/ pc = "idle" /\ pc' = "idle" /\ shows' # shows
       \/ ~InsideCheckAll /\ InsideCheckAll'

C16_Step ==
    /\ t2.pc = "idle" /\ t2' # t2 => ~InsideCheckAll
    /\ FirstCallerLockedStep => t2.pc # "query"

(* C16: while the first caller is inside check_all, from its batch refresh  *)
(* to its last per-key query, it owns the lock and no show_add, show_remove *)
(* or check of the second thread takes a step; while the second thread is   *)
(* inside check, it owns the lock and no show_add, show_remove or check_all *)
(* of the first caller takes a step.                                        *)
C16_LockedOperationsExclude ==
    /\ [](InsideCheckAll => lock.owner = "t1" /\ lock.depth >= 1)
    /\ [](t2.pc = "query" => lock = Acquire(LockFree, "t2"))
    /\ [][C16_Step]_vars

C16_Witness ==
    /\ pc = "upd_fetch"
    /\ stack = <<"check_all", "check">>
    /\ ca.batch_done
    /\ lock.owner = "t1" /\ lock.depth = 2
    /\ t2.op = "check"
    /\ t2.pc = "done"

----------------------------------------------------------------------------
(* Properties of the store's key set, checked under Spec *)

RemovesShow ==
    /\ pc = "idle"
    /\ pc' = "idle"
    /\ \E show \in DOMAIN shows : shows' = show_remove(shows, show)

C21_Step == DOMAIN shows \subseteq DOMAIN shows' \/ RemovesShow

(* C21: a step that takes a key out of the store is a show_remove: no step  *)
(* of show_update, show_update_all, check, check_all or show_save_all, with *)
(* any provider outcome (NotFound and exhausted retries included), removes  *)
(* a show.                                                                  *)
C21_KeysShrinkOnlyByRemove == [][C21_Step]_vars

C21_Witness ==
    /\ pc = "upd_ret"
    /\ Top = "batch"
    /\ LastOutcome(u) = "notfound"
    /\ u.key \in DOMAIN shows
    /\ shows[u.key]["errors"] = cfg.update_retry_num

----------------------------------------------------------------------------
(* Failing saves, checked under BatchSpec.  The batch's last step calls     *)
(* show_save_all itself; with auto_save every show_update of the batch      *)
(* calls it.                                                                *)

(* The first save of the running batch that fails. *)
FirstSaveFails == log'.save_failed /\ ~log.save_failed

C22_Step ==
    FirstSaveFails =>
        /\ disk' = disk
        /\ pc' \in {"upd_ret", "batch_ret"}
        /\ DOMAIN shows' = DOMAIN shows
        /\ pc' = "batch_ret" => shows' = shows
        /\ \A k \in DOMAIN shows : k # u'.key => shows'[k] = shows[k]

(* C22: a save that fails raises nothing: show_update returns to the batch, *)
(* show_update_all returns to its caller; the failing save leaves the cache *)
(* file and the records of the store as they are (within the show_update    *)
(* that saves, the records of the other shows); and the batch hands every   *)
(* key it started with to show_update.                                      *)
C22_SaveFailureIsSwallowed ==
    /\ [](log.save_failed => pc # "raised")
    /\ [](pc \in {"batch_ret", "done"} => b.done = b.keys)
    /\ [][C22_Step]_vars

C22_Witness ==
    /\ pc = "done"
    /\ b.auto_save
    /\ log.saves = 2
    /\ log.save_failed
    /\ disk = << >>
    /\ b.done = <<"a", "b">>
    /\ b.ok = {"a", "b"}

----------------------------------------------------------------------------
(* show_save_all followed write by write (lines 267-281): the document is   *)
(* written to the temporary path, entry after entry, then moved onto the    *)
(* cache path; each step may raise (caught and logged at lines 280-281),    *)
(* and the process may die between any two steps.  A file is << >> while    *)
(* absent, <<doc>> when complete, <<doc, "truncated">> while it holds only  *)
(* the beginning of a document.                                             *)

cache_file == "sallie.tmp.json"

temp_path_in_place(path) == path

(* Line 268: temp_path = path + "temp.json" *)
temp_path(path) == path \o "temp.json"

FileAt(path) == IF path = cache_file THEN disk ELSE temp

WriteFile(path, content) ==
    IF path = cache_file
    THEN disk' = content /\ temp' = temp
    ELSE temp' = content /\ disk' = disk

(* shutil.move(src, dst) within one directory: os.rename *)
MoveFile(src, dst) ==
    IF src = dst
    THEN UNCHANGED <<disk, temp>>
    ELSE disk' = temp /\ temp' = << >>

SaveSteps == {"save_open", "save_write", "save_move"}

SaveBegin ==
    /\ Idle
    /\ pc' = "save_open"
    /\ sv' = [doc |-> EncodeStore(shows),
              todo |-> SortedKeys(DOMAIN shows),
              old |-> disk]
    /\ UNCHANGED <<cfg, shows, disk, now, stack, u, b, c, ca, ret, results, log,
                   lock, t2, prior, temp>>

(* The temporary file is opened for writing: created, or cut to nothing.    *)
SaveOpen ==
    /\ pc = "save_open"
    /\ WriteFile(temp_path(cache_file), << << >>, "truncated" >>)
    /\ pc' = "save_write"
    /\ UNCHANGED <<cfg, shows, now, stack, u, b, c, ca, ret, results, log,
                   lock, t2, prior, sv>>

(* The entry of the next show is written.                                   *)
SaveWrite ==
    /\ pc = "save_write"
    /\ sv.todo # << >>
    /\ LET k == Head(sv.todo)
           sofar == FileAt(temp_path(cache_file))[1]
       IN  WriteFile(temp_path(cache_file),
                     << (k :> sv.doc[k]) @@ sofar, "truncated" >>)
    /\ sv' = [sv EXCEPT !.todo = Tail(@)]
    /\ UNCHANGED <<cfg, shows, now, pc, stack, u, b, c, ca, ret, results, log,
                   lock, t2, prior>>

(* The document is complete and the file closed.                            *)
SaveClose ==
    /\ pc = "save_write"
    /\ sv.todo = << >>
    /\ WriteFile(temp_path(cache_file), << FileAt(temp_path(cache_file))[1] >>)
    /\ pc' = "save_move"
    /\ UNCHANGED <<cfg, shows, now, stack, u, b, c, ca, ret, results, log,
                   lock, t2, prior, sv>>

(* Line 278: shutil.move(temp_path, path) *)
SaveMove ==
    /\ pc = "save_move"
    /\ MoveFile(temp_path(cache_file), cache_file)
    /\ pc' = "save_ret"
    /\ UNCHANGED <<cfg, shows, now, stack, u, b, c, ca, ret, results, log,
                   lock, t2, prior, sv>>

(* The step raises; lines 280-281 log the exception.                        *)
SaveFails ==
    /\ pc \in SaveSteps
    /\ pc' = "save_ret"
    /\ UNCHANGED <<cfg, shows, disk, now, stack, u, b, c, ca, ret, results, log,
                   lock, t2, prior, temp, sv>>

SaveReturn ==
    /\ pc = "save_ret"
    /\ pc' = "idle"
    /\ sv' = SVIdle
    /\ UNCHANGED <<cfg, shows, disk, now, stack, u, b, c, ca, ret, results, log,
                   lock, t2, prior, temp>>

(* The process dies inside show_save_all; the files stay as they are.       *)
Crash ==
    /\ pc \in SaveSteps
    /\ pc' = "crashed"
    /\ UNCHANGED <<cfg, shows, disk, now, stack, u, b, c, ca, ret, results, log,
                   lock, t2, prior, temp, sv>>

(* A new process is started on the files the dead one left.                 *)
Recover ==
    /\ pc = "crashed"
    /\ shows' = start(<< >>, IF Len(disk) = 1 THEN disk ELSE << >>)
    /\ pc' = "idle"
    /\ sv' = SVIdle
    /\ UNCHANGED <<cfg, disk, now, stack, u, b, c, ca, ret, results, log,
                   lock, t2, prior, temp>>

SaveInit ==
    /\ cfg \in SpecConfigs
    /\ shows \in [Keys -> RoundTripRecords]
    /\ disk = << >>
    /\ now = 0
    /\ pc = "idle"
    /\ stack = << >>
    /\ u = UIdle
    /\ b = BIdle
    /\ c = CIdle
    /\ ca = CAIdle
    /\ ret = FALSE
    /\ results = << >>
    /\ log = LogIdle
    /\ lock = LockFree
    /\ t2 = T2Idle
    /\ prior = << >>
    /\ temp = << >>
    /\ sv = SVIdle

SaveNext ==
    \/ ShowAdd
    \/ ShowRemove
    \/ SaveBegin
    \/ SaveOpen
    \/ SaveWrite
    \/ SaveClose
    \/ SaveMove
    \/ SaveFails
    \/ SaveReturn
    \/ Crash
    \/ Recover

SaveSpec == SaveInit /\ [][SaveNext]_vars

InsideSave == pc \in SaveSteps \cup {"save_ret", "crashed"}

(* C23: at every point of a show_save_all, a failure or the death of the    *)
(* process at any step included, the cache file is the file the call found  *)
(* (absent, or the complete previous snapshot) or the complete new          *)
(* snapshot; it never holds the beginning of a document only.               *)
C23_CacheFileNeverPartial ==
    /\ Len(disk) <= 1
    /\ InsideSave => disk \in {sv.old, <<sv.doc>>}

C23_Witness ==
    /\ pc = "crashed"
    /\ Len(temp) = 2
    /\ DOMAIN temp[1] = {"a"}
    /\ sv.todo = <<"b">>
    /\ sv.old # << >>
    /\ sv.old # <<sv.doc>>
    /\ disk = sv.old

----------------------------------------------------------------------------
(* Properties of the retry loop's failure handling, checked under Spec *)

ResetCount(outcomes) ==
    Cardinality({i \in 1..Len(outcomes) : outcomes[i] = "reset"})

(* The provider's answer to the call in flight is a connection reset. *)
ResetAnswered ==
    /\ pc = "upd_fetch"
    /\ Len(u'.outcomes) = Len(u.outcomes) + 1
    /\ LastOutcome(u') = "reset"

(* After a failure the loop goes round again exactly when the retry flag is *)
(* set and errors is below max_retries.                                     *)
RetriesAsConfigured ==
    /\ shows'[u.key]["errors"] = shows[u.key]["errors"] + 1
    /\ (pc' = "upd_fetch") =
          (cfg.update_retry /\ shows'[u.key]["errors"] < cfg.update_retry_num)
    /\ pc' \in {"upd_fetch", "upd_ret"}

C24_Step ==
    ResetAnswered =>
        /\ u'.slept = Append(u.slept, cfg.update_retry_delay * 2 ^ ResetCount(u.outcomes))
        /\ RetriesAsConfigured

(* C24: within one show_update the k-th connection-reset failure sleeps     *)
(* base * 2^(k-1), whatever other failures lie between; a new call starts   *)
(* again from the configured base; and each sleep is followed by errors + 1 *)
(* and by another provider call exactly when the retry flag is set and      *)
(* errors < max_retries.                                                    *)
C24_BackoffDoubles ==
    /\ [](\A i \in 1..Len(u.slept) : u.slept[i] = cfg.update_retry_delay * 2 ^ (i - 1))
    /\ [](Len(u.slept) = ResetCount(u.outcomes))
    /\ [][C24_Step]_vars

C24_Witness ==
    /\ pc = "upd_ret"
    /\ u.outcomes = <<"reset", "reset", "reset">>
    /\ u.slept = <<2, 4, 8>>
    /\ shows[u.key]["errors"] = 3

(* A later call, on a show that failed before, sleeps the base again. *)
C24_WitnessNextCall ==
    /\ pc = "upd_ret"
    /\ Get(u.pre, "errors", 0) >= 1
    /\ u.slept = <<cfg.update_retry_delay>>

(* The provider's answer to the call in flight is a failure that is neither *)
(* NotFound nor a connection reset.                                         *)
OtherAnswered ==
    /\ pc = "upd_fetch"
    /\ Len(u'.outcomes) = Len(u.outcomes) + 1
    /\ LastOutcome(u') = "other"

C25_Step ==
    OtherAnswered =>
        /\ RetriesAsConfigured
        /\ u'.slept = u.slept
        /\ u'.error_sleep = u.error_sleep

(* C25: a failure that is neither NotFound nor a connection reset adds one  *)
(* to errors and is retried exactly when the retry flag is set and errors < *)
(* max_retries, like a connection reset; it sleeps nothing and leaves the   *)
(* delay of the next connection reset of the call as it was.                *)
C25_OtherFailureCountsWithoutSleep == [][C25_Step]_vars

C25_Witness ==
    /\ pc = "upd_ret"
    /\ u.outcomes = <<"reset", "other", "reset">>
    /\ u.slept = <<2, 4>>
    /\ shows[u.key]["errors"] = 3

----------------------------------------------------------------------------
(* Further claims about the staleness policy (checked under PolicySpec) *)

PreShow == ShowDefaults(u.pre)

PreEpisodes == show_episodes_flatten(PreShow)

(* The rules before the recently-aired rule do not decide: the show was     *)
(* accessed, the call is not forced, the error-retry rule does not match.   *)
ReachesAiredRule ==
    /\ PolicyDone
    /\ PreAccessed # NoTime
    /\ ~u.force_check
    /\ ~(PreErrors >= 3 /\ PreDays >= cfg.update_interval_error)

PastAired(i) ==
    PreEpisodes[i].aired # NoTime /\ PreEpisodes[i].aired <= now

(* The episode the reverse scan meets first among those aired by now: the   *)
(* last of them in store order.                                             *)
FirstScanned(i) ==
    /\ i \in 1..Len(PreEpisodes)
    /\ PastAired(i)
    /\ \A j \in (i + 1)..Len(PreEpisodes) : ~PastAired(j)

Qualifying(i) ==
    PreEpisodes[i].aired - PreAccessed >= cfg.update_interval_aired * TicksPerDay

RecentlyAired ==
    /\ cfg.update_interval_aired # NoInterval
    /\ \E i \in 1..Len(PreEpisodes) : FirstScanned(i) /\ Qualifying(i)

(* What the rules after the recently-aired rule answer. *)
LaterRules ==
    IF ~PreShow["active"] THEN InactiveDue(PreDays)
    ELSE IF PreShow["hiatus"] THEN HiatusDue(PreDays)
    ELSE DefaultDue(PreDays)

(* C26: with the recently-aired threshold configured, the rule looks only   *)
(* at the first episode of the reverse scan that has aired by now (episodes *)
(* without aired value or airing later are skipped): the show is due if     *)
(* that episode's whole days (aired - accessed) reach the threshold; if not *)
(* the rule does not apply, also when an earlier episode in store order     *)
(* would reach it, and the later rules decide.                              *)
C26_AiredScanStopsAtFirstPast ==
    (ReachesAiredRule /\ cfg.update_interval_aired # NoInterval) =>
        ret = (IF RecentlyAired THEN TRUE ELSE LaterRules)

C26_Witness ==
    /\ ReachesAiredRule
    /\ cfg.update_interval_aired = 1
    /\ Len(PreEpisodes) = 2
    /\ FirstScanned(2)
    /\ ~Qualifying(2)
    /\ PastAired(1)
    /\ Qualifying(1)
    /\ ret = FALSE

(* A skipped episode (no aired value) before the one that decides. *)
C26_WitnessSkip ==
    /\ ReachesAiredRule
    /\ cfg.update_interval_aired = 1
    /\ Len(PreEpisodes) = 2
    /\ PreEpisodes[2].aired = NoTime
    /\ FirstScanned(1)
    /\ Qualifying(1)
    /\ ~LaterRules
    /\ ret = TRUE

(* The rules before the inactive and hiatus rules do not decide. *)
ReachesRecheckRules == ReachesAiredRule /\ ~RecentlyAired

Configured(interval) == interval # NoInterval

(* C27 as stated: for an accessed, non-forced show not matched by the       *)
(* error-retry or recently-aired rules, an inactive show is due iff an      *)
(* inactive-recheck interval is configured (0 included) and whole days      *)
(* since accessed reach it; an active show on hiatus likewise with the      *)
(* hiatus-recheck interval.                                                 *)
C27_AsStated ==
    ReachesRecheckRules =>
        /\ ~PreShow["active"]
           => ret = (/\ Configured(cfg.update_interval_inactive)
                     /\ PreDays >= cfg.update_interval_inactive)
        /\ (PreShow["active"] /\ PreShow["hiatus"])
           => ret = (/\ Configured(cfg.update_interval_hiatus)
                     /\ PreDays >= cfg.update_interval_hiatus)

(* The same for intervals other than 0: holds. *)
C27_NonZeroIntervals ==
    ReachesRecheckRules =>
        /\ (~PreShow["active"] /\ cfg.update_interval_inactive # 0)
           => ret = (/\ Configured(cfg.update_interval_inactive)
                     /\ PreDays >= cfg.update_interval_inactive)
        /\ (PreShow["active"] /\ PreShow["hiatus"] /\ cfg.update_interval_hiatus # 0)
           => ret = (/\ Configured(cfg.update_interval_hiatus)
                     /\ PreDays >= cfg.update_interval_hiatus)

Elapsed(interval) == interval \notin {NoInterval, 0} /\ PreDays >= interval

(* C28: the rules apply in a fixed order and the first that matches         *)
(* decides.  A qualifying recently-aired episode makes the show due         *)
(* whatever active, hiatus and their intervals are; without one, an         *)
(* inactive show follows the inactive interval alone, also when it is on    *)
(* hiatus; an active show on hiatus follows the hiatus interval alone; the  *)
(* default interval decides for active shows not on hiatus only.            *)
C28_FirstMatchingRuleDecides ==
    ReachesAiredRule =>
        ret = (IF RecentlyAired THEN TRUE
               ELSE IF ~PreShow["active"] THEN Elapsed(cfg.update_interval_inactive)
               ELSE IF PreShow["hiatus"] THEN Elapsed(cfg.update_interval_hiatus)
               ELSE PreDays >= cfg.update_interval)

C28_Witness ==
    /\ ReachesAiredRule
    /\ ~RecentlyAired
    /\ ~PreShow["active"]
    /\ PreShow["hiatus"]
    /\ Elapsed(cfg.update_interval_hiatus)
    /\ ~Elapsed(cfg.update_interval_inactive)
    /\ PreDays >= cfg.update_interval
    /\ ret = FALSE

(* An inactive show on hiatus, no recheck interval configured, made due by  *)
(* a recently aired episode.                                                *)
C28_WitnessAired ==
    /\ ReachesAiredRule
    /\ RecentlyAired
    /\ ~PreShow["active"]
    /\ PreShow["hiatus"]
    /\ cfg.update_interval_inactive = NoInterval
    /\ cfg.update_interval_hiatus = NoInterval
    /\ PreDays < cfg.update_interval
    /\ ret = TRUE

(* Whole days of a duration, rounded down: the n with n days <= d < n + 1   *)
(* days.                                                                    *)
FlooredDays(d) ==
    CHOOSE n \in -(MaxPolicyTime + 1)..(MaxPolicyTime + 1) :
        n * TicksPerDay <= d /\ d < (n + 1) * TicksPerDay

(* Whole days of a duration, rounded toward zero. *)
TruncatedDays(d) == IF d >= 0 THEN FlooredDays(d) ELSE -FlooredDays(-d)

(* The policy's answer for an accessed show when every duration is turned   *)
(* into whole days by WholeDays.                                            *)
PolicyWith(WholeDays(_)) ==
    LET sinceAccessed == WholeDays(now - PreAccessed) IN
    IF PreErrors >= 3 /\ (sinceAccessed >= cfg.update_interval_error \/ u.force_check)
    THEN TRUE
    ELSE IF u.force_check THEN TRUE
    ELSE IF /\ cfg.update_interval_aired # NoInterval
            /\ \E i \in 1..Len(PreEpisodes) :
                /\ FirstScanned(i)
                /\ WholeDays(PreEpisodes[i].aired - PreAccessed)
                      >= cfg.update_interval_aired
    THEN TRUE
    ELSE IF ~PreShow["active"]
    THEN cfg.update_interval_inactive \notin {NoInterval, 0}
         /\ sinceAccessed >= cfg.update_interval_inactive
    ELSE IF PreShow["hiatus"]
    THEN cfg.update_interval_hiatus \notin {NoInterval, 0}
         /\ sinceAccessed >= cfg.update_interval_hiatus
    ELSE sinceAccessed >= cfg.update_interval

(* C29 as stated: every interval comparison uses the duration truncated     *)
(* toward zero to whole days, also for a negative aired - accessed (an      *)
(* episode aired less than a day before accessed counts as 0 days).         *)
C29_AsStated ==
    (PolicyDone /\ PreAccessed # NoTime) => ret = PolicyWith(TruncatedDays)

(* C29 amended: every interval comparison uses the duration rounded down    *)
(* to whole days; for the elapsed time since accessed, which is never       *)
(* negative, that is truncation; an episode aired less than a day before    *)
(* accessed counts as -1 days and does not reach a threshold of 0.          *)
C29_DurationsAreFloored ==
    (PolicyDone /\ PreAccessed # NoTime) => ret = PolicyWith(FlooredDays)

C29_Witness ==
    /\ ReachesAiredRule
    /\ cfg.update_interval_aired = 0
    /\ \E i \in 1..Len(PreEpisodes) :
        /\ FirstScanned(i)
        /\ PreEpisodes[i].aired < PreAccessed
        /\ PreAccessed - PreEpisodes[i].aired < TicksPerDay
    /\ PreDays = 0
    /\ ret = FALSE

----------------------------------------------------------------------------
(* Specification of repeated show_update calls on one show under a wide     *)
(* range of settings: every max_retries up to MaxRetryNum, the retry flag   *)
(* set or not, the default, recheck and recently-aired intervals configured *)
(* as 0, as a day, or not at all.                                           *)

RepeatCfgs ==
    {Cfg(ui, hi, hi, a, 1, n, retry) :
        ui \in {0, 1}, hi \in {NoInterval, 0}, a \in {NoInterval, 0},
        n \in RetryNums, retry \in BOOLEAN}

RepeatInit ==
    /\ cfg \in RepeatCfgs
    /\ shows = ("a" :> << >>)
    /\ disk = << >>
    /\ now = 0
    /\ pc = "idle"
    /\ stack = << >>
    /\ u = UIdle
    /\ b = BIdle
    /\ c = CIdle
    /\ ca = CAIdle
    /\ ret = FALSE
    /\ results = << >>
    /\ log = LogIdle
    /\ lock = LockFree
    /\ t2 = T2Idle
    /\ prior = << >>
    /\ temp = << >>
    /\ sv = SVIdle

RepeatNext ==
    \/ ShowUpdate
    \/ FetchOk
    \/ FetchNotFound
    \/ FetchReset
    \/ FetchOther
    \/ FetchOtherLate
    \/ UpdateReturn
    \/ Tick

RepeatSpec == RepeatInit /\ [][RepeatNext]_vars

(* The record show_update found is as NotFound leaves it: errors at         *)
(* max_retries, accessed set.                                               *)
FoundAsNotFoundLeftIt ==
    /\ pc \in {"upd_fetch", "upd_ret"}
    /\ PreAccessed # NoTime
    /\ PreErrors = cfg.update_retry_num

----------------------------------------------------------------------------
(* Specification of one check_all over a store of two shows, with the keys  *)
(* omitted or given by the caller (in an order other than the sorted one,   *)
(* with a key twice).  The records were fetched at instant 0, or were just  *)
(* added.                                                                   *)

OrderData ==
    {[active |-> TRUE,
      episodes |-> <<Season(1, <<Episode(1, 1, 0), Episode(1, 2, 2)>>)>>],
     [active |-> TRUE,
      episodes |-> <<Season(1, <<Episode(1, 1, 2)>>)>>]}

OrderRecords == {<< >>} \cup {Merge(<< >>, data, 0) : data \in OrderData}

OrderKeyLists == {<<"b", "a">>, <<"a", "b", "a">>}

OrderInit ==
    /\ cfg = Cfg(1, NoInterval, 1, NoInterval, 1, 1, TRUE)
    /\ shows \in [Keys -> OrderRecords]
    /\ disk = << >>
    /\ now = 0
    /\ pc = "idle"
    /\ stack = << >>
    /\ u = UIdle
    /\ b = BIdle
    /\ c = CIdle
    /\ ca = CAIdle
    /\ ret = FALSE
    /\ results = << >>
    /\ log = LogIdle
    /\ lock = LockFree
    /\ t2 = T2Idle
    /\ prior = << >>
    /\ temp = << >>
    /\ sv = SVIdle

CheckAllOrdered == CheckAllOf(OrderKeyLists)

(* check_all has returned to the user; its frame and its result are kept. *)
OrderDone ==
    /\ pc = "ca_ret"
    /\ pc' = "done"
    /\ lock' = Release(lock)
    /\ UNCHANGED <<t2, prior, temp, sv>>
    /\ UNCHANGED <<cfg, shows, disk, now, stack, u, b, c, ca, ret, results, log>>

OrderNext ==
    \/ CheckAll
    \/ CheckAllOrdered
    \/ BatchStep
    \/ FetchOk
    \/ FetchNotFound
    \/ FetchReset
    \/ FetchOther
    \/ FetchOtherLate
    \/ UpdateReturnBatch
    \/ BatchFinishSave
    \/ BatchFinishNoSave
    \/ BatchReturnCheckAll
    \/ CheckAllStep
    \/ UpdateReturnCheck
    \/ CheckReturnCheckAll
    \/ CheckAllFinish
    \/ OrderDone
    \/ Tick

OrderSpec == OrderInit /\ [][OrderNext]_vars

CheckAllReturned == pc \in {"ca_ret", "done"}

AiredOf(pairs, i) == pairs[i][2].aired

(* C31: check_all returns the per-key results of check concatenated in the  *)
(* order the keys are processed: the sorted keys of the store when keys is  *)
(* omitted, the caller's list as given (duplicates included) otherwise;     *)
(* each per-key result is the window query of that key in reverse store     *)
(* order and is appended unchanged behind what was collected before, so the *)
(* whole is never re-ordered by date.                                       *)
C31_Step ==
    (pc = "chk_ret" /\ Top = "check_all" /\ pc' = "ca_loop")
    => /\ results = CheckQuery(c.key, shows[c.key], c)
       /\ c.key = ca.order[Len(ca.order)]
       /\ ca'.results = ca.results \o results
       /\ ca'.order = ca.order

C31_ResultsInKeyOrder ==
    /\ [](InsideCheckAll =>
            /\ ca.given \/ ca.keys = SortedKeys(DOMAIN shows)
            /\ ca.given => ca.keys \in OrderKeyLists
            /\ Len(ca.order) <= Len(ca.keys)
            /\ ca.order = SubSeq(ca.keys, 1, Len(ca.order)))
    /\ [](CheckAllReturned => ca.order = ca.keys /\ results = ca.results)
    /\ [][C31_Step]_vars

(* Keys omitted, both shows with an episode today and one tomorrow: the     *)
(* result is a's tomorrow, a's today, b's tomorrow, b's today, which no     *)
(* order by date produces.                                                  *)
C31_Witness ==
    /\ pc = "done"
    /\ ~ca.given
    /\ ca.keys = <<"a", "b">>
    /\ Len(results) = 4
    /\ <<results[1][1], results[2][1], results[3][1], results[4][1]>>
         = <<"a", "a", "b", "b">>
    /\ AiredOf(results, 1) > AiredOf(results, 2)
    /\ AiredOf(results, 2) < AiredOf(results, 3)
    /\ AiredOf(results, 3) > AiredOf(results, 4)

(* The caller gave a, b, a: a's episodes are returned twice, around b's. *)
C31_WitnessGiven ==
    /\ pc = "done"
    /\ ca.given
    /\ ca.keys = <<"a", "b", "a">>
    /\ \E i, j, k \in 1..Len(results) :
          /\ i < j /\ j < k
          /\ results[i][1] = "a" /\ results[j][1] = "b" /\ results[k][1] = "a"


----------------------------------------------------------------------------
(* The error counter under repeated show_update calls (RepeatSpec). *)

CapFired ==
    /\ PreAccessed # NoTime
    /\ PreErrors >= 3
    /\ u.due
    /\ (u.force_check \/ PreDays >= cfg.update_interval_error)

(* C32: in every reachable state, whatever failures, error-retry caps,      *)
(* NotFound answers and successes came before, every show has               *)
(* 0 <= errors <= max_retries, for every max_retries >= 1.                  *)
C32_ErrorsWithinRetries ==
    \A k \in DOMAIN shows :
        /\ 0 <= Errors(shows[k])
        /\ Errors(shows[k]) <= cfg.update_retry_num

(* The retries were exhausted, the error-retry rule lowered the counter,    *)
(* and the one attempt it allows failed: the counter is at max_retries      *)
(* again.                                                                   *)
C32_Witness ==
    /\ pc = "upd_ret"
    /\ CapFired
    /\ u.outcomes = <<"other">>
    /\ Errors(shows[u.key]) = cfg.update_retry_num


----------------------------------------------------------------------------
(* Specification of show_update called again and again on one show, with    *)
(* fairness: the caller keeps calling, every call returns, the provider     *)
(* answers every attempt, time advances (up to MaxTime; strongly fair, as   *)
(* the clock runs whether or not a call is in progress).  The default       *)
(* interval is 0 and the error-retry interval is 0 or a day, so that no     *)
(* wait is longer than the time the model has.                              *)

LiveCfgs ==
    {Cfg(0, NoInterval, NoInterval, NoInterval, e, n, retry) :
        e \in {0, 1}, n \in RetryNums, retry \in BOOLEAN}

LiveInit ==
    /\ cfg \in LiveCfgs
    /\ shows = ("a" :> << >>)
    /\ disk = << >>
    /\ now = 0
    /\ pc = "idle"
    /\ stack = << >>
    /\ u = UIdle
    /\ b = BIdle
    /\ c = CIdle
    /\ ca = CAIdle
    /\ ret = FALSE
    /\ results = << >>
    /\ log = LogIdle
    /\ lock = LockFree
    /\ t2 = T2Idle
    /\ prior = << >>
    /\ temp = << >>
    /\ sv = SVIdle

ProviderFails ==
    \/ FetchOther
    \/ FetchNotFound
    \/ FetchReset
    \/ FetchOtherLate

ProviderAnswers == ProviderFails \/ FetchOk

LiveNext ==
    \/ ShowUpdate
    \/ FetchOk
    \/ FetchNotFound
    \/ FetchReset
    \/ FetchOther
    \/ FetchOtherLate
    \/ UpdateReturn
    \/ Tick

LiveSpec ==
    /\ LiveInit
    /\ [][LiveNext]_vars
    /\ WF_vars(ShowUpdate)
    /\ WF_vars(ProviderAnswers)
    /\ WF_vars(UpdateReturn)
    /\ SF_vars(Tick)

RefreshedOk ==
    /\ Errors(shows["a"]) = 0
    /\ Accessed(shows["a"]) # NoTime

(* No provider call of the show_update in progress has failed. *)
NoFailure == \A i \in 1..Len(u.outcomes) : u.outcomes[i] = "ok"

(* C33: if show_update is called again and again while time advances, and   *)
(* from some point on no provider call fails, the show is eventually        *)
(* refreshed (errors = 0 and accessed set) and stays so.                    *)
C33_AsStated == <>[]NoFailure => <>[]RefreshedOk

(* The show whose first refresh cycle used up its retries: errors is at     *)
(* max_retries and accessed was never set.                                  *)
ExhaustedBeforeFirstAccess ==
    /\ Errors(shows["a"]) = cfg.update_retry_num
    /\ Accessed(shows["a"]) = NoTime

(* Why C33 fails: such a show is due at line 323-326, before the error-     *)
(* retry rule is looked at, and the loop test of line 402 then fails, so    *)
(* no call, forced or not, reaches the provider or changes the record.      *)
C33_ExhaustedIsFinal ==
    [][ExhaustedBeforeFirstAccess /\ pc # "upd_fetch"
       => /\ shows' = shows
          /\ pc' # "upd_fetch"]_vars

C33_Witness ==
    /\ ExhaustedBeforeFirstAccess
    /\ pc = "upd_ret"
    /\ u.due
    /\ u.force_check
    /\ ProviderCalls = 0
    /\ cfg.update_retry_num = 3


----------------------------------------------------------------------------
(* Specification of show_update called repeatedly on one show while the     *)
(* provider answers with every episode content: an episode without aired    *)
(* value or aired at any instant of the model, the show running or ended.   *)
(* All intervals are unset or one day; the recently-aired threshold is      *)
(* unset, 0 or one day.                                                     *)

IdemData ==
    {[active |-> act, episodes |-> <<Season(1, <<Episode(1, 1, x)>>)>>] :
        act \in BOOLEAN, x \in {NoTime} \cup 0..MaxTime}

IdemCfgs ==
    {Cfg(1, h, h, a, 1, 3, FALSE) : h \in {NoInterval, 1}, a \in {NoInterval, 0, 1}}

IdemInit ==
    /\ cfg \in IdemCfgs
    /\ shows = ("a" :> << >>)
    /\ disk = << >>
    /\ now = 0
    /\ pc = "idle"
    /\ stack = << >>
    /\ u = UIdle
    /\ b = BIdle
    /\ c = CIdle
    /\ ca = CAIdle
    /\ ret = FALSE
    /\ results = << >>
    /\ log = LogIdle
    /\ lock = LockFree
    /\ t2 = T2Idle
    /\ prior = << >>
    /\ temp = << >>
    /\ sv = SVIdle

FetchOkAny == FetchOkOf(IdemData)

(* show_update(key, force_check), auto_save left at its default *)
ShowUpdateNoSave ==
    /\ Idle
    /\ \E force_check \in BOOLEAN :
        UpdateEnter(shows, "a", force_check, FALSE, << >>)
    /\ UNCHANGED <<lock, t2, prior, temp, sv>>
    /\ UNCHANGED <<cfg, now, b, c, ca, results>>

IdemNext ==
    \/ ShowUpdateNoSave
    \/ FetchOkAny
    \/ FetchNotFound
    \/ FetchReset
    \/ FetchOther
    \/ FetchOtherLate
    \/ UpdateReturn
    \/ Tick

IdemSpec == IdemInit /\ [][IdemNext]_vars

(* A show_update without force is entered on a record that a successful     *)
(* fetch wrote at this very instant.                                        *)
SecondCallAtOnce ==
    /\ pc = "idle"
    /\ pc' \in {"upd_fetch", "upd_ret"}
    /\ ~u'.force_check
    /\ "errors" \in DOMAIN shows["a"]
    /\ Errors(shows["a"]) = 0
    /\ Accessed(shows["a"]) = now

NoCallNoChange ==
    /\ pc' = "upd_ret"
    /\ ~ret'
    /\ u'.outcomes = << >>

(* C34: right after a successful show_update, with no time elapsed and all  *)
(* intervals at least a day, a second show_update without force returns     *)
(* false and makes no provider call, whatever episodes were fetched and     *)
(* whatever recently-aired threshold >= 0 is configured.                    *)
C34_AsStated == [][SecondCallAtOnce => NoCallNoChange]_vars

(* The same for a recently-aired threshold that is unset or at least a day: *)
(* this the code does.                                                      *)
C34_ThresholdOfADay ==
    [][SecondCallAtOnce /\ cfg.update_interval_aired # 0 => NoCallNoChange]_vars

(* Threshold 0, an episode aired at the instant of the fetch: the second    *)
(* call goes to the provider again.                                         *)
C34_Witness ==
    /\ pc = "upd_fetch"
    /\ ~u.force_check
    /\ cfg.update_interval_aired = 0
    /\ PreErrors = 0
    /\ PreAccessed = now
    /\ \E i \in 1..Len(PreEpisodes) : PreEpisodes[i].aired = now


----------------------------------------------------------------------------
(* What a failed provider call leaves of the record (RepeatSpec). *)

(* A step in which the provider call in flight fails: connection reset or   *)
(* any other exception.                                                     *)
ProviderFailed ==
    /\ pc = "upd_fetch"
    /\ Len(u'.outcomes) = Len(u.outcomes) + 1
    /\ LastOutcome(u') \in {"reset", "other"}

SameBut(fields) ==
    LET old == shows[u.key]
        new == shows'[u.key]
    IN  /\ DOMAIN new \ fields = DOMAIN old \ fields
        /\ \A f \in DOMAIN old \ fields : new[f] = old[f]

(* C35: a provider call that fails, at whatever step of the fetch and       *)
(* merge, leaves the record as it was before the call except for errors.    *)
C35_AsStated == [][ProviderFailed => SameBut({"errors"})]_vars

(* What the code keeps: episodes and accessed, which the adapter writes     *)
(* last; the fields it writes first may have changed.                       *)
C35_EpisodesAndAccessedKept ==
    [][ProviderFailed
       => SameBut({"errors", "active", "hiatus", "air_timezone"})]_vars

(* A show never fetched, marked as ended by a call that failed. *)
C35_Witness ==
    /\ pc = "upd_ret"
    /\ u.outcomes = <<"other">>
    /\ Accessed(shows[u.key]) = NoTime
    /\ Errors(shows[u.key]) = 1
    /\ shows[u.key]["active"] = FALSE
    /\ "air_timezone" \in DOMAIN shows[u.key]


----------------------------------------------------------------------------
(* Specification of show_update called repeatedly on a show loaded from the *)
(* cache file: fetched at instant 0 and then failed up to MaxRetryNum times *)
(* in an earlier run, whose max_retries (default 3, line 147) need not be   *)
(* the one configured now.                                                  *)

CapRecords ==
    {Put(Merge(<< >>, OlderData, 0), "errors", e) : e \in 0..MaxRetryNum}

CapCfgs ==
    {Cfg(1, NoInterval, NoInterval, NoInterval, 1, n, retry) :
        n \in RetryNums, retry \in BOOLEAN}

CapInit ==
    /\ cfg \in CapCfgs
    /\ \E r \in CapRecords : shows = ("a" :> r)
    /\ disk = << >>
    /\ now = 0
    /\ pc = "idle"
    /\ stack = << >>
    /\ u = UIdle
    /\ b = BIdle
    /\ c = CIdle
    /\ ca = CAIdle
    /\ ret = FALSE
    /\ results = << >>
    /\ log = LogIdle
    /\ lock = LockFree
    /\ t2 = T2Idle
    /\ prior = << >>
    /\ temp = << >>
    /\ sv = SVIdle

CapNext ==
    \/ ShowUpdate
    \/ FetchOk
    \/ FetchNotFound
    \/ FetchReset
    \/ FetchOther
    \/ FetchOtherLate
    \/ UpdateReturn
    \/ Tick

CapSpec == CapInit /\ [][CapNext]_vars

(* The error-retry rule of lines 328-334 fires for the record `show` at     *)
(* clock t.                                                                 *)
RuleFires(show, t, force_check) ==
    /\ Accessed(show) # NoTime
    /\ ErrorRetryDue(show, Days(t - Accessed(show)), force_check)

(* show_update is entered and the rule fires. *)
EnteredWithRule ==
    /\ pc = "idle"
    /\ pc' # "idle"
    /\ RuleFires(shows["a"], now, u'.force_check)

(* The first provider call of a show_update whose gate fired the rule is in *)
(* flight (the adapter read the clock at the instant of the gate).          *)
FirstAttemptAfterRule ==
    /\ pc = "upd_fetch"
    /\ u.outcomes = << >>
    /\ RuleFires(u.pre, u.fetch_now, u.force_check)

OneAttempt ==
    /\ EnteredWithRule => pc' = "upd_fetch"
    /\ FirstAttemptAfterRule =>
          /\ pc' = "upd_fetch" => u' = u
          /\ ProviderFailed =>
                /\ pc' # "upd_fetch"
                /\ Errors(shows'["a"]) = cfg.update_retry_num

(* C36: when the error-retry rule fires, the show_update that follows makes *)
(* exactly one provider attempt; if it fails, errors is at max_retries      *)
(* again and the call makes no further attempt; for every max_retries >= 1. *)
C36_AsStated == [][OneAttempt]_vars

(* The same for max_retries >= 2: this the code does. *)
C36_FromTwoRetries == [][cfg.update_retry_num >= 2 => OneAttempt]_vars

(* max_retries = 1: the rule has fired, and the call returns without any    *)
(* provider attempt.                                                        *)
C36_Witness ==
    /\ pc = "upd_ret"
    /\ cfg.update_retry_num = 1
    /\ PreErrors >= 3
    /\ PreAccessed # NoTime
    /\ u.force_check
    /\ u.due
    /\ u.outcomes = << >>
    /\ Errors(shows["a"]) = 1

(* max_retries = 3: one attempt, failed, errors at 3 again. *)
C36_WitnessOnce ==
    /\ pc = "upd_ret"
    /\ cfg.update_retry_num = 3
    /\ cfg.update_retry
    /\ PreErrors = 3
    /\ PreAccessed # NoTime
    /\ u.force_check
    /\ u.outcomes = <<"reset">>
    /\ Errors(shows["a"]) = 3


----------------------------------------------------------------------------
(* What check_all leaves in the cache file (OrderSpec). *)

StoreOnDisk == disk = <<EncodeStore(shows)>>

(* C37: when check_all returns and a refresh changed a record during the    *)
(* call, the cache file holds the store as it is in memory, also when the   *)
(* refresh was obtained by a per-key check after the batch.                 *)
C37_AsStated == (CheckAllReturned /\ ca.refreshed) => StoreOnDisk

(* What the code does: with the keys omitted, no save failed and no         *)
(* show_update of a per-key check having changed anything, the store the    *)
(* batch refreshed is in the cache file.                                    *)
C37_BatchAlone ==
    (/\ CheckAllReturned
     /\ ca.refreshed
     /\ ~ca.given
     /\ ~ca.later
     /\ ~log.save_failed)
    => StoreOnDisk

(* The keys omitted, the batch saved, and a per-key check refreshed a show  *)
(* afterwards: the cache file holds the older store.                        *)
C37_Witness ==
    /\ pc = "done"
    /\ ~ca.given
    /\ ca.batch_done
    /\ ca.later
    /\ ca.refreshed
    /\ ~log.save_failed
    /\ disk # << >>
    /\ ~StoreOnDisk

(* The caller gave the keys and left auto_save off: nothing was saved. *)
C37_WitnessGiven ==
    /\ pc = "done"
    /\ ca.given
    /\ ca.refreshed
    /\ disk = << >>


----------------------------------------------------------------------------
(* Specification of the lock: the first caller adds, removes, checks and    *)
(* checks all on a store that starts empty (so that check finds the show    *)
(* missing and calls show_add inside its own with block), a provider call   *)
(* may be interrupted by an exception that show_update does not catch, and  *)
(* a second thread calls check again and again.  Fairness: every call in    *)
(* progress goes on, and the second thread gets the lock if it is free      *)
(* again and again.                                                         *)

LockInit ==
    /\ cfg = Cfg(1, NoInterval, 1, NoInterval, 1, 1, FALSE)
    /\ shows = << >>
    /\ disk = << >>
    /\ now = 0
    /\ pc = "idle"
    /\ stack = << >>
    /\ u = UIdle
    /\ b = BIdle
    /\ c = CIdle
    /\ ca = CAIdle
    /\ ret = FALSE
    /\ results = << >>
    /\ log = LogIdle
    /\ lock = LockFree
    /\ t2 = T2Idle
    /\ prior = << >>
    /\ temp = << >>
    /\ sv = SVIdle

(* The with blocks of lines 518 and 571 among the frames on the stack. *)
WithBlocks ==
    Cardinality({i \in 1..Len(stack) : stack[i] \in {"check", "check_all"}})

UnwindKeepsLock(l, n) == l

(* Leaving n with blocks: each releases the lock once. *)
RECURSIVE Unwind(_, _)
Unwind(l, n) == IF n = 0 THEN l ELSE Unwind(Release(l), n - 1)

(* KeyboardInterrupt or SystemExit during the provider call: line 416       *)
(* catches Exception only, so it leaves show_update and every with block    *)
(* around it.                                                               *)
Interrupt ==
    /\ pc = "upd_fetch"
    /\ pc' = "raised"
    /\ lock' = Unwind(lock, WithBlocks)
    /\ stack' = << >>
    /\ u' = UIdle
    /\ b' = BIdle
    /\ c' = CIdle
    /\ ca' = CAIdle
    /\ ret' = FALSE
    /\ results' = << >>
    /\ log' = LogIdle
    /\ UNCHANGED <<t2, prior, temp, sv>>
    /\ UNCHANGED <<cfg, shows, disk, now>>

(* The steps of a call of the first caller that is in progress. *)
FirstCallerGoesOn ==
    \/ Raised
    \/ UpdateReturnBatch
    \/ UpdateReturnCheck
    \/ BatchReturnCheckAll
    \/ CheckReturn
    \/ CheckReturnCheckAll
    \/ CheckAllFinish
    \/ CheckAllReturn
    \/ BatchFinishNoSave
    \/ BatchFinishSave
    \/ BatchStep
    \/ CheckAllStep
    \/ FetchOther
    \/ FetchNotFound
    \/ FetchReset
    \/ FetchOtherLate
    \/ FetchOk
    \/ Interrupt

LockNext ==
    \/ ShowAdd
    \/ ShowRemove
    \/ Check
    \/ CheckAll
    \/ CheckAllKeys
    \/ CheckAllStep
    \/ BatchStep
    \/ FetchOk
    \/ FetchNotFound
    \/ FetchReset
    \/ FetchOther
    \/ FetchOtherLate
    \/ Interrupt
    \/ Raised
    \/ UpdateReturnBatch
    \/ UpdateReturnCheck
    \/ BatchFinishSave
    \/ BatchFinishNoSave
    \/ BatchReturnCheckAll
    \/ CheckReturn
    \/ CheckReturnCheckAll
    \/ CheckAllFinish
    \/ CheckAllReturn
    \/ T2CheckEnter
    \/ T2CheckQuery
    \/ T2Return

LockSpec ==
    /\ LockInit
    /\ [][LockNext]_vars
    /\ WF_vars(FirstCallerGoesOn)
    /\ WF_vars(T2CheckQuery)
    /\ WF_vars(T2Return)
    /\ SF_vars(T2CheckEnter)

HoldCount(thread) == IF lock.owner = thread THEN lock.depth ELSE 0

(* The with blocks the first caller is inside: those of the frames on the   *)
(* stack, and that of the check or check_all whose own code is running.     *)
FirstCallerBlocks ==
    WithBlocks
    + (IF pc = "chk_ret" THEN 1 ELSE 0)
    + (IF pc \in {"ca_loop", "ca_ret"} THEN 1 ELSE 0)

C38_WitnessRaised ==
    /\ pc = "raised"
    /\ lock.owner # "t1"
    /\ ca = CAIdle

----------------------------------------------------------------------------
(* show_update beside a second thread that adds and removes shows.          *)
(* show_update takes no lock, so a show_remove or show_add of the other     *)
(* thread runs between any two of its statements.  The call is taken here   *)
(* in the pieces between which the store is read again: the gate and the    *)
(* loop test (lines 393-403), the adapter binding the record (next_tvdb.py  *)
(* 132), the provider's answer with its handler and the next loop test.     *)
(* While the request is in flight the adapter holds the record it bound:    *)
(* pc is "upd_wait" while that record is the one in the store, "upd_lost"   *)
(* once the other thread has removed it.                                    *)

RaceCfgs ==
    {Cfg(1, NoInterval, 1, NoInterval, 1, num, retry) :
        num \in 1..2, retry \in BOOLEAN}

RaceInit ==
    /\ cfg \in RaceCfgs
    /\ shows \in [SpecKeys -> {<< >>, Merge(<< >>, OlderData, 0)}]
    /\ disk = << >>
    /\ now = 0
    /\ pc = "idle"
    /\ stack = << >>
    /\ u = UIdle
    /\ b = BIdle
    /\ c = CIdle
    /\ ca = CAIdle
    /\ ret = FALSE
    /\ results = << >>
    /\ log = LogIdle
    /\ lock = LockFree
    /\ t2 = T2Idle
    /\ prior = << >>
    /\ temp = << >>
    /\ sv = SVIdle

(* Lines 401-403: the loop test; when it passes retry is cleared and        *)
(* _show_update is about to be called.                                      *)
LoopTest(store, frame) ==
    IF LoopGuard(store, frame)
    THEN /\ shows' = store
         /\ u' = [frame EXCEPT !.retry = FALSE]
         /\ pc' = "upd_call"
         /\ UNCHANGED <<disk, log, ret>>
    ELSE Finish(store, frame)

(* show_update(key, force_check, auto_save), lines 393-403 *)
ShowUpdateEnter ==
    /\ Idle
    /\ \E key \in DOMAIN shows, force_check \in BOOLEAN, auto_save \in BOOLEAN :
        LET r     == show_update_should(shows[key], now, force_check)
            frame == [UIdle EXCEPT !.key = key, !.force_check = force_check,
                                   !.auto_save = auto_save, !.pre = shows[key]]
        IN  IF NotDue(r)
            THEN /\ shows' = Put(shows, key, r.show)
                 /\ u' = frame
                 /\ ret' = FALSE
                 /\ pc' = "upd_ret"
                 /\ UNCHANGED <<disk, log>>
            ELSE LoopTest(Put(shows, key, SetDefault(r.show, "errors", 0)),
                          [frame EXCEPT !.retry = TRUE, !.due = TRUE,
                                        !.error_sleep = cfg.update_retry_delay])
    /\ UNCHANGED <<lock, t2, prior, temp, sv>>
    /\ UNCHANGED <<cfg, now, stack, b, c, ca, results>>

(* next_tvdb.py 132: show = self._shows.setdefault(key, {}) *)
Bind(store, key) == SetDefault(store, key, << >>)

(* next_tvdb.py 131-147: the record is bound, the clock read, the request   *)
(* sent.                                                                    *)
AdapterEnter ==
    /\ pc = "upd_call"
    /\ shows' = Bind(shows, u.key)
    /\ u' = [u EXCEPT !.fetch_now = now]
    /\ pc' = IF u.key \in DOMAIN shows' THEN "upd_wait" ELSE "upd_lost"
    /\ UNCHANGED <<lock, t2, prior, temp, sv>>
    /\ UNCHANGED <<cfg, disk, now, stack, b, c, ca, ret, results, log>>

InFlight == pc \in {"upd_wait", "upd_lost"}

(* self.shows[key] or self.shows[key]['errors'] raises KeyError; inside an  *)
(* except block it leaves show_update.                                      *)
KeyErrorRaised ==
    /\ pc' = "raised"
    /\ u' = [u EXCEPT !.outcomes = Append(@, "keyerror")]
    /\ UNCHANGED <<shows, disk, log, ret>>

(* The provider answers: success.  The adapter writes into the record it    *)
(* holds (lines 170-232), which is the store's only while not removed;      *)
(* retry is False, so the loop test ends the loop without reading the store.*)
AdapterOk ==
    /\ InFlight
    /\ \E data \in ProviderData :
        LoopTest(IF pc = "upd_wait"
                 THEN Put(shows, u.key, Merge(shows[u.key], data, u.fetch_now))
                 ELSE shows,
                 [u EXCEPT !.changed = TRUE, !.outcomes = Append(@, "ok")])
    /\ UNCHANGED <<lock, t2, prior, temp, sv>>
    /\ UNCHANGED <<cfg, now, stack, b, c, ca, results>>

(* TVNextNotFoundException, lines 408-415: self.shows[key]['errors'] = ...  *)
AdapterNotFound ==
    /\ InFlight
    /\ IF u.key \in DOMAIN shows
       THEN Finish(NotFoundStore(shows, u.key),
                   [u EXCEPT !.changed = TRUE, !.outcomes = Append(@, "notfound")])
       ELSE KeyErrorRaised
    /\ UNCHANGED <<lock, t2, prior, temp, sv>>
    /\ UNCHANGED <<cfg, now, stack, b, c, ca, results>>

(* Any other exception, lines 416-430: self.shows[key]['errors'] += 1       *)
AdapterOther ==
    /\ InFlight
    /\ IF u.key \in DOMAIN shows /\ "errors" \in DOMAIN shows[u.key]
       THEN LoopTest(Put(shows, u.key, FailureAccounting(shows[u.key])),
                     Failed(u, "other"))
       ELSE KeyErrorRaised
    /\ UNCHANGED <<lock, t2, prior, temp, sv>>
    /\ UNCHANGED <<cfg, now, stack, b, c, ca, results>>

(* The exception has left show_update. *)
RaceRaised ==
    /\ pc = "raised"
    /\ pc' = "idle"
    /\ u' = UIdle
    /\ UNCHANGED <<lock, t2, prior, temp, sv>>
    /\ UNCHANGED <<cfg, shows, disk, now, stack, b, c, ca, ret, results, log>>

(* show_remove(show) in the second thread, lines 243-245, from call to      *)
(* return.  A record the adapter of the first caller holds is no longer the *)
(* store's.                                                                 *)
RaceShowRemove ==
    /\ CanAcquire(lock, "t2")
    /\ \E show \in SpecKeys :
        /\ shows' = show_remove(shows, show)
        /\ t2' = T2Call("show_remove", show)
        /\ pc' = IF pc = "upd_wait" /\ u.key = show THEN "upd_lost" ELSE pc
    /\ UNCHANGED <<lock, prior, temp, sv>>
    /\ UNCHANGED <<cfg, disk, now, stack, u, b, c, ca, ret, results, log>>

(* show_add(show) in the second thread, lines 230-234, from call to return. *)
RaceShowAdd ==
    /\ CanAcquire(lock, "t2")
    /\ \E show \in SpecKeys :
        /\ shows' = show_add(shows, show, NoTimezone)
        /\ t2' = T2Call("show_add", show)
    /\ UNCHANGED <<lock, prior, temp, sv>>
    /\ UNCHANGED <<cfg, disk, now, pc, stack, u, b, c, ca, ret, results, log>>

RaceNext ==
    \/ ShowUpdateEnter
    \/ AdapterEnter
    \/ AdapterOk
    \/ AdapterNotFound
    \/ AdapterOther
    \/ UpdateReturn
    \/ RaceRaised
    \/ RaceShowRemove
    \/ RaceShowAdd

RaceSpec == RaceInit /\ [][RaceNext]_vars

(* The last call of the second thread was show_remove and it has returned;  *)
(* the first caller only ever runs show_update, so no show_add and no check *)
(* for the key has been made since.                                         *)
RemoveReturned == t2.pc = "done" /\ t2.op = "show_remove"

(* C39 as stated: once show_remove(key) has returned, and until a show_add  *)
(* or check for the key, the key stays absent from the store, and a         *)
(* show_update running in another thread does not fail with a missing-key   *)
(* error.                                                                   *)
C39_AsStated ==
    [][(RemoveReturned /\ RemoveReturned') =>
           /\ t2.key \notin DOMAIN shows'
           /\ pc' = "raised" => pc = "raised"]_vars

(* C39, what holds: a show removed while no show_update is between its gate *)
(* and its return stays absent until it is added again.                     *)
C39_AbsentWhileIdle ==
    [][(RemoveReturned /\ RemoveReturned' /\ t2.key \notin DOMAIN shows
            /\ pc \notin {"upd_call", "upd_wait", "upd_lost"}) =>
           t2.key \notin DOMAIN shows']_vars

(* C39, what holds: a refresh that succeeds after the show was removed      *)
(* during the request writes into the record the adapter holds and leaves   *)
(* the store alone.                                                         *)
C39_LostRecordStaysOut ==
    [][(pc = "upd_lost" /\ pc' = "upd_ret") =>
           DOMAIN shows' = DOMAIN shows]_vars

(* The show was removed between the loop test and the adapter's setdefault; *)
(* the adapter has put it back and the refresh has filled it.               *)
C39_Witness ==
    /\ RemoveReturned
    /\ pc = "upd_ret"
    /\ t2.key \in DOMAIN shows
    /\ "episodes" \in DOMAIN shows[t2.key]

(* The show was removed during the request; the provider failed and the     *)
(* handler's self.shows[key] raised KeyError.                               *)
C39_WitnessRaised ==
    /\ RemoveReturned
    /\ pc = "raised"
    /\ t2.key \notin DOMAIN shows
    /\ u.outcomes # << >> /\ u.outcomes[Len(u.outcomes)] = "keyerror"

====
